---- MODULE Spec2Model ----
(***************************************************************************)
(* Crymap mailbox selection: rollup listing and classification, loading    *)
(* of the latest rollup, replay of the change log and the background       *)
(* garbage-collection task (src/account/mailbox/select.rs).                *)
(***************************************************************************)
EXTENDS Integers, Sequences, FiniteSets, TLC

(***************************************************************************)
(* Variables of the classify_rollups development (SpecClassify).           *)
(*   input   the slice handed to classify_rollups, in caller order         *)
(*   rollups the slice after classify_rollups returned                     *)
(*   phase   "build" while the slice is assembled, "done" after the call   *)
(***************************************************************************)
VARIABLES input, rollups, phase

cvars == <<input, rollups, phase>>

(***************************************************************************)
(* Variables of the mailbox on disk and of select (Spec, SpecList,         *)
(* SpecReplay).                                                            *)
(*   log       every transaction committed so far; log[c] is the content   *)
(*             of the file change/<c>                                      *)
(*   change    the CIDs whose file is present in change/                   *)
(*   rollupDir the files of rollup/: name (uid, cid), age, stored state    *)
(*   task      the background task spawned by select, while it runs        *)
(*   sel       the outcome of the call of select that is returning         *)
(***************************************************************************)
VARIABLES log, change, rollupDir, task, sel

evars == <<log, change, rollupDir, task, sel>>

(***************************************************************************)
(* Variable of the sessions and writers of the mailbox (SpecSession).      *)
(*   sessions  per open session: its materialised state, the position of   *)
(*             its commit, and what its last poll and commit returned      *)
(***************************************************************************)
VARIABLES sessions

(***************************************************************************)
(* Variable of the session view a caller holds once select has returned    *)
(* (SpecView).                                                             *)
(*   view      the StatefulMailbox of the caller: its state, read_only bit *)
(*             and recency frontier, and what its last operation returned  *)
(***************************************************************************)
VARIABLES view

(***************************************************************************)
(* Variable of a second process that selects the same mailbox (SpecRace).  *)
(*   peer      the background task spawned by the select of that process   *)
(***************************************************************************)
VARIABLES peer

svars == <<sessions, view, peer>>

(***************************************************************************)
(* Variables of a fetch over one message (SpecFetch,                      *)
(* src/mime/fetch/multi.rs).                                               *)
(*   multi    the MultiFetcher handed to the MIME walk and, above it, the  *)
(*            sub-MultiFetchers of the parts being walked, innermost last  *)
(*   pending  the output of a finished part, until the MultiFetcher of the *)
(*            enclosing part is given it through child_result              *)
(*   output   what the walk returned: the output of the outermost          *)
(*            MultiFetcher                                                 *)
(*   added    the fetchers in the order of the add_* calls                 *)
(*   calls    the number of Visitor calls made so far by the walk          *)
(***************************************************************************)
VARIABLES multi, pending, output, added, calls

fvars == <<multi, pending, output, added, calls>>

(***************************************************************************)
(* Variables of the protocol front ends and of the directory listing.      *)
(*   conn    the IMAP CommandProcessor of one connection together with the *)
(*           credentials of its process (SpecLogin,                        *)
(*           src/imap/command_processor/auth.rs)                           *)
(*   client  the IMAP Client and the two byte streams it holds             *)
(*           (SpecAppend, src/imap/client.rs)                              *)
(*   smtp    the last line handed to the SMTP command parser and what the  *)
(*           parser and the known-command test made of it (SpecSmtp,       *)
(*           src/smtp/syntax.rs)                                           *)
(*   stat    the clock reading and the modification times behind the       *)
(*           RollupInfos of `input` (SpecMtime, list_rollups)              *)
(***************************************************************************)
VARIABLES conn, client, smtp, stat

pvars == <<conn, client, smtp, stat>>

vars == <<input, rollups, phase, log, change, rollupDir, task, sel, sessions,
          view, peer, multi, pending, output, added, calls, conn, client,
          smtp, stat>>

\* ------------------------------------------------------------------ bounds
\* Longest slice handed to classify_rollups.
MaxRollups == 5
\* Greatest CID of a RollupInfo in the classify_rollups development.
MaxCid == 2
\* Most transactions committed to the mailbox.
MaxTx == 3
\* Most files found in rollup/, and the greatest UID half and CID half of
\* their names, when the directory is an input of select (SpecList).
MaxDirEntries == 3
MaxNameUid == 2
MaxNameCid == 2

\* --------------------------------------------------------------- constants
EXCESS_ROLLUP_THRESHOLD == 4
\* Seconds; the cfg(not(test)) values.
OLD_ROLLUP_GRACE_PERIOD == 24 * 3600
EXCESS_ROLLUP_GRACE_PERIOD == 60

\* Ages (seconds) on both sides of, and exactly at, the two grace periods.
Ages == {EXCESS_ROLLUP_GRACE_PERIOD - 1, EXCESS_ROLLUP_GRACE_PERIOD,
         OLD_ROLLUP_GRACE_PERIOD}

\* ------------------------------------------------------------- RollupInfo
\* A path is the sequence of bytes of the file name (the rollup directory
\* prefix is common to every entry); PathBuf::new() is the empty sequence.
EmptyPath == <<>>

RollupInfo(cid, age, path) ==
    [cid |-> cid, age |-> age, path |-> path,
     delete_rollup |-> FALSE, delete_transactions |-> FALSE]

\* The test helper r(cid, age_ms): an unmarked RollupInfo with an empty path.
r(cid, age) == RollupInfo(cid, age, EmptyPath)

\* Byte-wise lexicographic order of two paths (Ord for PathBuf).
RECURSIVE PathCmp(_, _)
PathCmp(a, b) ==
    IF a = <<>> /\ b = <<>> THEN 0
    ELSE IF a = <<>> THEN -1
    ELSE IF b = <<>> THEN 1
    ELSE IF Head(a) < Head(b) THEN -1
    ELSE IF Head(a) > Head(b) THEN 1
    ELSE PathCmp(Tail(a), Tail(b))

BoolCmp(a, b) == IF a = b THEN 0 ELSE IF b THEN -1 ELSE 1

IntCmp(a, b) == IF a < b THEN -1 ELSE IF a > b THEN 1 ELSE 0

\* Mutant of the derived order: the greater element compares as the less.
RollupCmp_reversed(a, b) ==
    IF a.cid # b.cid THEN IntCmp(b.cid, a.cid)
    ELSE IF a.age # b.age THEN IntCmp(b.age, a.age)
    ELSE PathCmp(b.path, a.path)

\* #[derive(PartialOrd, Ord)] on RollupInfo: lexicographic over the fields
\* in declaration order cid, age, path, delete_rollup, delete_transactions.
RollupCmp(a, b) ==
    IF IntCmp(a.cid, b.cid) # 0 THEN IntCmp(a.cid, b.cid)
    ELSE IF IntCmp(a.age, b.age) # 0 THEN IntCmp(a.age, b.age)
    ELSE IF PathCmp(a.path, b.path) # 0 THEN PathCmp(a.path, b.path)
    ELSE IF BoolCmp(a.delete_rollup, b.delete_rollup) # 0
         THEN BoolCmp(a.delete_rollup, b.delete_rollup)
    ELSE BoolCmp(a.delete_transactions, b.delete_transactions)

\* Insert x into the sorted sequence s, keeping it sorted.
RECURSIVE InsertSorted(_, _)
InsertSorted(x, s) ==
    IF s = <<>> THEN <<x>>
    ELSE IF RollupCmp(x, Head(s)) <= 0 THEN <<x>> \o s
    ELSE <<Head(s)>> \o InsertSorted(x, Tail(s))

RECURSIVE SortFrom(_, _)
SortFrom(s, acc) ==
    IF s = <<>> THEN acc ELSE SortFrom(Tail(s), InsertSorted(Head(s), acc))

\* Mutant of sort_unstable: the slice is left in caller order.
sort_unstable_skipped(s) == s

\* Mutant of sort_unstable: elements that compare equal are merged.
RECURSIVE sort_unstable_dedup(_)
sort_unstable_dedup(s) ==
    IF s = <<>> THEN <<>>
    ELSE LET rest == sort_unstable_dedup(Tail(s))
         IN  IF \E i \in 1..Len(rest) : rest[i] = Head(s)
             THEN rest ELSE InsertSorted(Head(s), rest)

\* rollups.sort_unstable(): the order is total and elements that compare
\* equal are equal in every field, so the result is unique.
sort_unstable(s) == SortFrom(s, <<>>)

\* Mutant of the first loop: it runs over the whole slice, latest included.
MarkOld_all(s) ==
    [i \in 1..Len(s) |->
        IF s[i].age >= OLD_ROLLUP_GRACE_PERIOD
        THEN [s[i] EXCEPT !.delete_rollup = TRUE, !.delete_transactions = TRUE]
        ELSE s[i]]

\* Mutant of the first loop: strict comparison with the grace period.
MarkOld_strict(s) ==
    [i \in 1..Len(s) |->
        IF i <= Len(s) - 1 /\ s[i].age > OLD_ROLLUP_GRACE_PERIOD
        THEN [s[i] EXCEPT !.delete_rollup = TRUE, !.delete_transactions = TRUE]
        ELSE s[i]]

\* Mutant of the first loop: only the transactions are marked.
MarkOld_transactions_only(s) ==
    [i \in 1..Len(s) |->
        IF i < Len(s) /\ s[i].age >= OLD_ROLLUP_GRACE_PERIOD
        THEN [s[i] EXCEPT !.delete_transactions = TRUE]
        ELSE s[i]]

\* for rollup in &mut rollups[..len - 1]: every rollup but the last that is
\* at least OLD_ROLLUP_GRACE_PERIOD old is marked for deletion together
\* with the transactions it contains.
MarkOld(s) ==
    [i \in 1..Len(s) |->
        IF i <= Len(s) - 1 /\ s[i].age >= OLD_ROLLUP_GRACE_PERIOD
        THEN [s[i] EXCEPT !.delete_rollup = TRUE, !.delete_transactions = TRUE]
        ELSE s[i]]

\* Mutant of the second loop: one rollup fewer is considered excess.
MarkExcess_short(s) ==
    [i \in 1..Len(s) |->
        IF /\ Len(s) > EXCESS_ROLLUP_THRESHOLD
           /\ i <= Len(s) - EXCESS_ROLLUP_THRESHOLD - 1
           /\ s[i].age >= EXCESS_ROLLUP_GRACE_PERIOD
        THEN [s[i] EXCEPT !.delete_rollup = TRUE]
        ELSE s[i]]

\* Mutant of the second loop: the excess rule ignores the threshold.
MarkExcess_eager(s) ==
    [i \in 1..Len(s) |->
        IF /\ i <= Len(s) - 1
           /\ s[i].age >= EXCESS_ROLLUP_GRACE_PERIOD
        THEN [s[i] EXCEPT !.delete_rollup = TRUE]
        ELSE s[i]]

\* if len > EXCESS_ROLLUP_THRESHOLD { for rollup in
\* &mut rollups[..len - EXCESS_ROLLUP_THRESHOLD] ... }: the rollup only.
MarkExcess(s) ==
    [i \in 1..Len(s) |->
        IF /\ Len(s) > EXCESS_ROLLUP_THRESHOLD
           /\ i <= Len(s) - EXCESS_ROLLUP_THRESHOLD
           /\ s[i].age >= EXCESS_ROLLUP_GRACE_PERIOD
        THEN [s[i] EXCEPT !.delete_rollup = TRUE]
        ELSE s[i]]

classify_rollups(s) ==
    IF s = <<>> THEN s ELSE MarkExcess(MarkOld(sort_unstable(s)))

\* ---------------------------------------------------- identifier algebra
\* Option::None
None == [none |-> TRUE]

\* A Modseq is the pair of its UID half and its CID half.
Modseq(uid, cid) == [uid |-> uid, cid |-> cid]

\* Modseq::of on the number whose halves are uid and cid: None when either
\* half is zero.
ModseqOf(uid, cid) == IF uid = 0 \/ cid = 0 THEN None ELSE Modseq(uid, cid)

\* Total order of Modseqs: lexicographic, UID half first.
ModseqLess(a, b) == a.uid < b.uid \/ (a.uid = b.uid /\ a.cid < b.cid)

\* 2^32 in decimal, least significant digit first.
Pow32 == <<6, 9, 2, 7, 6, 9, 4, 9, 2, 4>>

\* digits * k + carry on decimal digits, least significant first.
RECURSIVE MulAdd(_, _, _)
MulAdd(digits, k, carry) ==
    IF digits = <<>>
    THEN IF carry = 0 THEN <<>> ELSE <<carry % 10>> \o MulAdd(<<>>, k, carry \div 10)
    ELSE LET v == Head(digits) * k + carry
         IN  <<v % 10>> \o MulAdd(Tail(digits), k, v \div 10)

Reverse(s) == [i \in 1..Len(s) |-> s[Len(s) + 1 - i]]

\* The name of a rollup file: its Modseq (uid << 32 | cid) in decimal, as
\* the sequence of its digits, most significant first.
RollupName(uid, cid) == Reverse(MulAdd(MulAdd(Pow32, uid, 0), 1, cid))

\* ------------------------------------------------------- state materialiser
\* MailboxState::new()
EmptyState == [next_uid |-> 1, messages |-> <<>>, flag_table |-> <<>>, cid |-> 0]

\* MailboxState::max_modseq(): None until a UID has been assigned.
max_modseq(st) ==
    IF st.next_uid = 1 THEN None ELSE Modseq(st.next_uid - 1, st.cid)

FlagId(tbl, f) == CHOOSE i \in 1..Len(tbl) : tbl[i] = f

HasFlag(tbl, f) == \E i \in 1..Len(tbl) : tbl[i] = f

\* Mutant of the flag table: a new flag is put in front.
Intern_prepends(tbl, f) == IF HasFlag(tbl, f) THEN tbl ELSE <<f>> \o tbl

\* A flag, once in the table, keeps its position; a new one is appended.
Intern(tbl, f) == IF HasFlag(tbl, f) THEN tbl ELSE Append(tbl, f)

TxAppend == [kind |-> "Append"]
TxStoreSeen(uid) == [kind |-> "StoreFlags", uid |-> uid, flag |-> "Seen"]
TxExpunge(uid) == [kind |-> "Expunge", uid |-> uid]
TxDefineFlag(flag) == [kind |-> "DefineFlag", flag |-> flag]

\* Append: the entry is inserted at next_uid, which is bumped.
ApplyAppend(st, cid) ==
    [st EXCEPT
       !.messages = Append(@, [flags |-> {}, last_modified |-> cid,
                               expunged_at |-> 0]),
       !.next_uid = @ + 1]

\* StoreFlags on a UID the state has; the flag is interned if new.
ApplyStoreFlags(st, tx, cid) ==
    LET tbl == Intern(st.flag_table, tx.flag)
    IN  [st EXCEPT
           !.flag_table = tbl,
           !.messages[tx.uid].flags = @ \cup {FlagId(tbl, tx.flag)},
           !.messages[tx.uid].last_modified = cid]

\* Mutant of Expunge: the entry of the newest UID is dropped and its UID
\* given back.
ApplyExpunge_frees_uid(st, tx, cid) ==
    IF tx.uid = Len(st.messages)
    THEN [st EXCEPT !.messages = SubSeq(@, 1, Len(@) - 1), !.next_uid = @ - 1]
    ELSE [st EXCEPT !.messages[tx.uid].expunged_at = cid]

\* Expunge of a UID the state has, not expunged yet: the entry lingers with
\* expunged_at set.
ApplyExpunge(st, tx, cid) == [st EXCEPT !.messages[tx.uid].expunged_at = cid]

\* DefineFlag: appended to flag_table if absent.
ApplyDefineFlag(st, tx) == [st EXCEPT !.flag_table = Intern(@, tx.flag)]

\* apply(state, transaction) for the transaction committed as `cid`; a
\* mutation of a UID the state does not have is ignored.
Apply(st, tx, cid) ==
    LET known(u) == u \in 1..Len(st.messages)
        body ==
          IF tx.kind = "Append"
          THEN ApplyAppend(st, cid)
          ELSE IF tx.kind = "StoreFlags"
          THEN IF known(tx.uid) THEN ApplyStoreFlags(st, tx, cid) ELSE st
          ELSE IF tx.kind = "Expunge"
          THEN IF known(tx.uid) /\ st.messages[tx.uid].expunged_at = 0
               THEN ApplyExpunge(st, tx, cid)
               ELSE st
          ELSE IF tx.kind = "DefineFlag"
          THEN ApplyDefineFlag(st, tx)
          ELSE st
    IN  [body EXCEPT !.cid = cid]

\* Replay, in ascending CID order, of the transactions of `files` (the CIDs
\* present in change/) greater than `from` and at most `upto`, on `st`;
\* history[c] is the content of the file named c.

\* A transaction file whose content does not decode.
TxCorrupt == [kind |-> "Corrupt"]

\* Mutant of the decoder: whatever is in the file is taken for a record.
decodes_anything(tx) == TRUE

\* Whether the content of a transaction file decodes to a typed mutation.
decodes(tx) == tx.kind # "Corrupt"

\* Replay stops at the first file that does not decode.
RECURSIVE Replay(_, _, _, _, _)
Replay(st, files, history, from, upto) ==
    IF from >= upto THEN st
    ELSE IF (from + 1) \in files /\ ~decodes(history[from + 1]) THEN st
    ELSE Replay(IF (from + 1) \in files
                THEN Apply(st, history[from + 1], from + 1) ELSE st,
                files, history, from + 1, upto)

\* Whether poll() on `st` returns Err: a transaction it has to replay does
\* not decode.
poll_error(st, files, history) ==
    \E c \in files : c > st.cid /\ c <= Len(history) /\ ~decodes(history[c])

\* Mutant of poll(): the transaction the state already contains is applied
\* once more.
poll_reapplies_last(st, files, history) ==
    Replay(st, files, history, IF st.cid > 0 THEN st.cid - 1 ELSE 0, Len(history))

\* Mutant of poll(): the new transactions are applied to a fresh state.
poll_resets(st, files, history) ==
    IF \E c \in files : c > st.cid
    THEN Replay(EmptyState, files, history, st.cid, Len(history))
    ELSE st

\* Mutant of poll(): the newest transaction is left for the next poll.
poll_lags(st, files, history) ==
    Replay(st, files, history, st.cid, Len(history) - 1)

\* poll(): replay of every transaction file with cid > the state's cid.
poll(st, files, history) == Replay(st, files, history, st.cid, Len(history))

\* The state of the mailbox after the first k transactions of the history.
StateAt(history, k) == Replay(EmptyState, 1..k, history, 0, k)

\* ------------------------------------------------------------ the disk
\* A file of rollup/: named `path` after the Modseq (uid, cid), `age`
\* seconds old, holding the serialised MailboxState `state`.
RollupFile(uid, cid, age, st) ==
    [uid |-> uid, cid |-> cid, path |-> RollupName(uid, cid), age |-> age,
     state |-> st]

FilePath(f) == f.path

HasFile(dir, path) == \E f \in dir : FilePath(f) = path

FileAt(dir, path) == CHOOSE f \in dir : FilePath(f) = path

\* Ages of files are kept saturated at the grace period they have reached.
Aged(age, d) ==
    IF age + d >= OLD_ROLLUP_GRACE_PERIOD THEN OLD_ROLLUP_GRACE_PERIOD
    ELSE IF age + d >= EXCESS_ROLLUP_GRACE_PERIOD THEN EXCESS_ROLLUP_GRACE_PERIOD
    ELSE age + d

RECURSIVE SeqOfSet(_)
SeqOfSet(S) ==
    IF S = {} THEN <<>>
    ELSE LET x == CHOOSE y \in S : TRUE IN <<x>> \o SeqOfSet(S \ {x})

\* ------------------------------------------------------------------ select
\* The characters of a file name: the decimal digits are 0..9, Plus is '+'
\* and Other is any other character.
Plus == 10
Other == 11

\* u64::from_str_radix(n, 10) is Ok: an optional '+', then at least one
\* digit (the names of this development are too short to overflow a u64).
is_decimal(name) ==
    LET digits == IF name # <<>> /\ name[1] = Plus THEN Tail(name) ELSE name
    IN  digits # <<>> /\ \A i \in 1..Len(digits) : digits[i] \in 0..9

\* Mutant of the parse of the file name: every entry is taken for a rollup.
name_modseq_any(f) == Modseq(f.uid, f.cid)

\* `entry.file_name().to_str().and_then(|n| u64::from_str_radix(n, 10).ok())
\* .and_then(Modseq::of)`; f.uid and f.cid are the halves of the number the
\* name denotes when it denotes one.
name_modseq(f) ==
    IF ~is_decimal(FilePath(f)) THEN None ELSE ModseqOf(f.uid, f.cid)

\* list_rollups: one RollupInfo per validly named entry of rollup/ (none
\* when the directory is missing), then classify_rollups. read_dir yields
\* the entries in no particular order; the sort makes the result the same
\* for each.
list_rollups(dir) ==
    classify_rollups(
        SeqOfSet({RollupInfo(f.cid, f.age, FilePath(f)) :
                     f \in {g \in dir : name_modseq(g) # None}}))

\* Mutant of rollups.pop(): the first element is taken.
pop_front(listed) ==
    IF listed = <<>> THEN <<None, <<>>>>
    ELSE <<listed[1], SubSeq(listed, 2, Len(listed))>>

\* rollups.pop(): the last element, if any, and the list without it.
pop(listed) ==
    IF listed = <<>> THEN <<None, <<>>>>
    ELSE <<listed[Len(listed)], SubSeq(listed, 1, Len(listed) - 1)>>

\* Mutant of the state load: when the latest rollup cannot be read the next
\* older one is loaded instead.
load_state_fallback(latest, rest, read_ok, dir) ==
    IF latest = None THEN EmptyState
    ELSE IF read_ok THEN FileAt(dir, latest.path).state
    ELSE IF rest # <<>> THEN FileAt(dir, rest[Len(rest)].path).state
    ELSE EmptyState

\* .and_then(|r| match s.read_state_file(&r.path) { Ok(state) => Some(state),
\* Err(e) => None }).unwrap_or_else(MailboxState::new)
load_state(latest, rest, read_ok, dir) ==
    IF latest = None THEN EmptyState
    ELSE IF read_ok THEN FileAt(dir, latest.path).state
    ELSE EmptyState

\* Whether failing to read the latest rollup makes select return Err: the
\* Err arm logs and yields None.
load_error(latest, read_ok) == FALSE

\* Mutant of select: the state is returned as loaded, poll() is not called.
select_poll_skipped(st, files, history) == st

\* this.poll()?
select_poll(st, files, history) == poll(st, files, history)

\* Mutant of `this.poll()?`: the Result of poll() is dropped.
select_poll_error_dropped(io_err, decode_err) == FALSE

\* The `?` of `this.poll()?`: select returns the Err of poll(), be it an I/O
\* error or a transaction that does not decode.
select_poll_error(io_err, decode_err) == io_err \/ decode_err

\* Option::Some
Some(x) == [some |-> x]

\* Mutant of the recency frontier: it is taken from nothing.
recency_frontier_unset(st) == None

\* state.max_modseq().map(Modseq::uid)
recency_frontier(st) ==
    IF max_modseq(st) = None THEN None ELSE Some(max_modseq(st).uid)

\* Mutant of the spawn guard: the task is spawned for EXAMINE too.
spawns_task_always(read_only) == TRUE

\* if !this.s.read_only { rayon::spawn(...) }
spawns_task(read_only) == ~read_only

NumMessages(st) ==
    Cardinality({u \in 1..Len(st.messages) : st.messages[u].expunged_at = 0})

SelectResponse(st, read_only) ==
    [exists |-> NumMessages(st), uidnext |-> st.next_uid,
     read_only |-> read_only, max_modseq |-> max_modseq(st)]

NoSelect ==
    [status |-> "none", error |-> "ok", read_only |-> FALSE, entries |-> {},
     listed |-> 0,
     loaded |-> <<>>, read_failed |-> FALSE, start |-> EmptyState,
     state |-> EmptyState, recency_frontier |-> None, spawned |-> FALSE,
     response |-> None]

\* A background task: the read_only bit of the StatelessMailbox cloned into
\* it, the rollups moved into it, its position, and the steps it has taken.
NewTask(read_only, rest) ==
    [read_only |-> read_only, rollups |-> rest, pc |-> "message_gc", i |-> 1,
     events |-> <<>>]

NoTask == [read_only |-> FALSE, rollups |-> <<>>, pc |-> "none", i |-> 0,
           events |-> <<>>]

\* No call of select is returning.
Idle == sel.status = "none"

Event(op, floor, path, res) == [op |-> op, floor |-> floor, path |-> path, res |-> res]

\* The points at which select returns Err: list_rollups (read_dir or
\* metadata), poll() and uid_validity(); "ok" when no I/O error is met.
SelectErrors == {"ok", "list_rollups", "poll", "uid_validity"}

\* StatefulMailbox::select from the point where read_dir has yielded its
\* entries, `dir` being those that metadata() still finds. `io_in` is the
\* I/O error met, if any; `read_ok` whether read_state_file succeeds on the
\* latest rollup.
SelectBody(dir, read_only, io_in, read_ok) ==
    LET listed == list_rollups(dir)
        popped == pop(listed)
        latest == popped[1]
        rest   == popped[2]
        start  == load_state(latest, rest, read_ok, dir)
        failed == load_error(latest, read_ok)
        final  == select_poll(start, change, log)
        io     == IF io_in = "list_rollups" THEN io_in
                  ELSE IF select_poll_error(io_in = "poll",
                                            poll_error(start, change, log))
                  THEN "poll"
                  ELSE IF io_in = "poll" THEN "ok"
                  ELSE io_in
        spawn  == ~failed /\ io \in {"ok", "uid_validity"} /\ spawns_task(read_only)
    IN  /\ latest = None => read_ok
        /\ spawn => task = NoTask
        /\ sel' =
             IF io = "list_rollups"
             THEN [NoSelect EXCEPT !.status = "err", !.error = io,
                                   !.read_only = read_only]
             ELSE [status |-> IF io = "ok" /\ ~failed THEN "ok" ELSE "err",
                   error |-> io,
                   read_only |-> read_only,
                   entries |-> sel.entries,
                   listed |-> Len(listed),
                   loaded |-> IF latest = None THEN <<>> ELSE latest.path,
                   read_failed |-> latest # None /\ ~read_ok,
                   start |-> start,
                   state |-> IF io = "poll" \/ failed THEN start ELSE final,
                   recency_frontier |-> recency_frontier(start),
                   spawned |-> spawn,
                   response |-> IF io = "ok" /\ ~failed
                                THEN SelectResponse(final, read_only) ELSE None]
        /\ task' = IF spawn THEN NewTask(read_only, rest) ELSE task
        /\ UNCHANGED <<log, change, rollupDir>>

\* select with read_dir and the metadata() of every entry in one step.
Select(read_only, io, read_ok) ==
    Idle /\ SelectBody(rollupDir, read_only, io, read_ok)

\* fs::read_dir(s.root.join("rollup")): the entries the directory has now
\* are those the loop of list_rollups will go through.
ReadDir ==
    /\ Idle
    /\ sel' = [NoSelect EXCEPT !.status = "listing",
                               !.entries = {FilePath(f) : f \in rollupDir}]
    /\ UNCHANGED <<log, change, rollupDir, task>>

\* Mutant of the metadata() match: NotFound is returned like any other Err.
metadata_not_found_is_error(entries, dir) ==
    \E path \in entries : ~HasFile(dir, path)

\* Whether list_rollups returns Err because an entry read_dir yielded has
\* no file any more when metadata() is called on it: NotFound is skipped
\* with `continue`.
metadata_not_found(entries, dir) == FALSE

\* The rest of select once read_dir has returned: metadata() is called on
\* each entry, which is skipped if its file is gone by then.
SelectListed(read_only, io, read_ok) ==
    /\ sel.status = "listing"
    /\ SelectBody({f \in rollupDir : FilePath(f) \in sel.entries}, read_only,
                  IF metadata_not_found(sel.entries, rollupDir)
                  THEN "list_rollups" ELSE io,
                  read_ok)

\* The caller has taken the result of select.
SelectReturn ==
    /\ sel.status \in {"ok", "err"}
    /\ sel' = NoSelect
    /\ UNCHANGED <<log, change, rollupDir, task>>

\* ------------------------------------------------------ background task
\* if let Err(err) = s_clone.message_scheme().gc(..) { warn!(..); return; }
after_message_gc(ok) == IF ok THEN "change_gc" ELSE "done"

\* if let Err(err) = s_clone.change_scheme().gc(..) { warn!(..) } else { .. }
after_change_gc(ok) == IF ok THEN "remove" ELSE "done"

\* Mutant of warn!: the error of a step of the task becomes the result of
\* the call of select that is returning.
warn_surfaced(s, ok) ==
    IF ok \/ s.status = "none" THEN s ELSE [s EXCEPT !.status = "err"]

\* warn!(..) in the closure: the error is logged; what select returns to its
\* caller is left as it is.
warn(s, ok) == s

\* The floor passed to message_scheme().gc.
MessageGcFloor == 0

\* s_clone.message_scheme().gc(tmp, garbage, 0)
TaskMessageGcStep(ok) ==
    /\ task.pc = "message_gc"
    /\ task' = [task EXCEPT
                  !.pc = after_message_gc(ok),
                  !.events = Append(@, Event("message_gc", MessageGcFloor, <<>>,
                                             IF ok THEN "ok" ELSE "err"))]
    /\ sel' = warn(sel, ok)
    /\ UNCHANGED <<log, change, rollupDir>>

TaskMessageGc(ok) == Idle /\ TaskMessageGcStep(ok)

Max(S) == CHOOSE x \in S : \A y \in S : y <= x

Min(S) == CHOOSE x \in S : \A y \in S : x <= y

\* Mutant of expunge_before_cid: the least marked CID is taken.
expunge_before_cid_min(rs) ==
    LET marked == {rs[i].cid : i \in {j \in 1..Len(rs) : rs[j].delete_transactions}}
    IN  IF marked = {} THEN 0 ELSE Min(marked)

\* rollups.iter().filter(|r| r.delete_transactions).map(|r| r.cid).max()
\*     .unwrap_or(Cid(0))
expunge_before_cid(rs) ==
    LET marked == {rs[i].cid : i \in {j \in 1..Len(rs) : rs[j].delete_transactions}}
    IN  IF marked = {} THEN 0 ELSE Max(marked)

\* Mutant of the change GC: the transaction whose cid is the floor is kept.
change_gc_keeps_floor(files, floor) == {c \in files : c >= floor}

\* The files of change/ left by a GC run that got as far as `floor`: those
\* with a greater cid.
change_gc(files, floor) == {c \in files : c > floor}

\* change_scheme().gc(tmp, garbage, floor): on success every transaction
\* file with cid <= floor is gone; a failing run stopped somewhere below.
TaskChangeGcStep(ok) ==
    LET floor == expunge_before_cid(task.rollups)
    IN  /\ task.pc = "change_gc"
        /\ \E m \in 0..floor :
              /\ ok => m = floor
              /\ change' = change_gc(change, m)
        /\ task' = [task EXCEPT
                      !.pc = after_change_gc(ok),
                      !.events = Append(@, Event("change_gc", floor, <<>>,
                                                 IF ok THEN "ok" ELSE "err"))]
        /\ sel' = warn(sel, ok)
        /\ UNCHANGED <<log, rollupDir>>

TaskChangeGc(ok) == Idle /\ TaskChangeGcStep(ok)

\* The first index >= i of a rollup marked delete_rollup, or Len + 1.
RECURSIVE NextMarked(_, _)
NextMarked(rs, i) ==
    IF i > Len(rs) \/ rs[i].delete_rollup THEN i ELSE NextMarked(rs, i + 1)

\* Mutant of the removal loop: the first failure ends the loop.
after_remove_stopping(rs, i, ok) == IF ok THEN i + 1 ELSE Len(rs) + 1

\* The loop goes on to the next rollup whatever remove_file returned.
after_remove(rs, i, ok) == i + 1

\* What fs::remove_file(path) returns: "ok" when it removed the file,
\* "NotFound" (an Err) when there is no such file, "err" for any other Err.
remove_file(dir, path, ok) ==
    IF ~ok THEN "err" ELSE IF HasFile(dir, path) THEN "ok" ELSE "NotFound"

\* Mutant of ignore_not_found(): the Result is passed on as it is.
ignore_not_found_dropped(res) == res

\* .ignore_not_found(): Err(NotFound) becomes Ok(()), noted as "not_found".
ignore_not_found(res) == IF res = "NotFound" THEN "not_found" ELSE res

\* Whether the Result, after ignore_not_found(), is Ok.
IsOk(res) == res \in {"ok", "not_found"}

\* One iteration of `for rollup in rollups { if rollup.delete_rollup { .. } }`
\* that calls fs::remove_file(&rollup.path).ignore_not_found(): the file is
\* removed, or is already gone (ignored), or the removal fails (warn!) and
\* the file stays.
TaskRemoveRollupStep(ok) ==
    LET rs  == task.rollups
        i   == NextMarked(rs, task.i)
        res == ignore_not_found(remove_file(rollupDir, rs[i].path, ok))
    IN  /\ task.pc = "remove"
        /\ i <= Len(rs)
        /\ ~HasFile(rollupDir, rs[i].path) => ok
        /\ rollupDir' = IF ok THEN {f \in rollupDir : FilePath(f) # rs[i].path}
                        ELSE rollupDir
        /\ task' = [task EXCEPT
                      !.i = after_remove(rs, i, IsOk(res)),
                      !.events = Append(@, Event("remove", 0, rs[i].path, res))]
        /\ sel' = warn(sel, IsOk(res))
        /\ UNCHANGED <<log, change>>

TaskRemoveRollup(ok) == Idle /\ TaskRemoveRollupStep(ok)

\* The loop has no marked rollup left: the closure returns.
TaskRemoveDoneStep ==
    /\ task.pc = "remove"
    /\ NextMarked(task.rollups, task.i) > Len(task.rollups)
    /\ task' = [task EXCEPT !.pc = "done", !.i = Len(task.rollups) + 1]
    /\ UNCHANGED <<log, change, rollupDir, sel>>

TaskRemoveDone == Idle /\ TaskRemoveDoneStep

\* The finished task is dropped by the thread pool.
TaskExitStep ==
    /\ task.pc = "done"
    /\ task' = NoTask
    /\ UNCHANGED <<log, change, rollupDir, sel>>

TaskExit == Idle /\ TaskExitStep

\* ------------------------------------------------- a second process
\* Another process selects the mailbox read-write: its list_rollups and
\* pop(), and the task it spawns with the rollups left.
PeerSelect ==
    /\ peer = NoTask
    /\ peer' = NewTask(FALSE, pop(list_rollups(rollupDir))[2])
    /\ UNCHANGED <<log, change, rollupDir, task, sel>>

\* The steps of the task of that process: the same closure.
PeerMessageGc(ok) ==
    /\ peer.pc = "message_gc"
    /\ peer' = [peer EXCEPT
                  !.pc = after_message_gc(ok),
                  !.events = Append(@, Event("message_gc", MessageGcFloor, <<>>,
                                             IF ok THEN "ok" ELSE "err"))]
    /\ UNCHANGED <<log, change, rollupDir, task, sel>>

PeerChangeGc(ok) ==
    LET floor == expunge_before_cid(peer.rollups)
    IN  /\ peer.pc = "change_gc"
        /\ \E m \in 0..floor :
              /\ ok => m = floor
              /\ change' = change_gc(change, m)
        /\ peer' = [peer EXCEPT
                      !.pc = after_change_gc(ok),
                      !.events = Append(@, Event("change_gc", floor, <<>>,
                                                 IF ok THEN "ok" ELSE "err"))]
        /\ UNCHANGED <<log, rollupDir, task, sel>>

PeerRemoveRollup(ok) ==
    LET rs  == peer.rollups
        i   == NextMarked(rs, peer.i)
        res == ignore_not_found(remove_file(rollupDir, rs[i].path, ok))
    IN  /\ peer.pc = "remove"
        /\ i <= Len(rs)
        /\ ~HasFile(rollupDir, rs[i].path) => ok
        /\ rollupDir' = IF ok THEN {f \in rollupDir : FilePath(f) # rs[i].path}
                        ELSE rollupDir
        /\ peer' = [peer EXCEPT
                      !.i = after_remove(rs, i, IsOk(res)),
                      !.events = Append(@, Event("remove", 0, rs[i].path, res))]
        /\ UNCHANGED <<log, change, task, sel>>

PeerRemoveDone ==
    /\ peer.pc = "remove"
    /\ NextMarked(peer.rollups, peer.i) > Len(peer.rollups)
    /\ peer' = [peer EXCEPT !.pc = "done", !.i = Len(peer.rollups) + 1]
    /\ UNCHANGED <<log, change, rollupDir, task, sel>>

PeerExit ==
    /\ peer.pc = "done"
    /\ peer' = NoTask
    /\ UNCHANGED <<log, change, rollupDir, task, sel>>

\* ------------------------------------------------------------ environment
\* The transactions writers commit in Spec.
EngineTxs == {TxAppend}

\* A writer commits `tx` under the next CID.
Commit(tx) ==
    /\ Idle
    /\ Len(log) < MaxTx
    /\ log' = Append(log, tx)
    /\ change' = change \cup {Len(log) + 1}
    /\ UNCHANGED <<rollupDir, task, sel>>

\* A writer commits `tx` under the next CID, to a log of at most n.
CommitWithin(tx, n) ==
    /\ Idle
    /\ Len(log) < n
    /\ log' = Append(log, tx)
    /\ change' = change \cup {Len(log) + 1}
    /\ UNCHANGED <<rollupDir, task, sel>>

\* A session whose state is that after the first k transactions writes it
\* to rollup/<max_modseq>.
WriteRollup(k) ==
    LET st == StateAt(log, k)
        ms == max_modseq(st)
    IN  /\ Idle
        /\ ms # None
        /\ ~HasFile(rollupDir, RollupName(ms.uid, ms.cid))
        /\ rollupDir' = rollupDir \cup {RollupFile(ms.uid, ms.cid, 0, st)}
        /\ UNCHANGED <<log, change, task, sel>>

\* d seconds pass.
Tick(d) ==
    /\ Idle
    /\ rollupDir' = {[f EXCEPT !.age = Aged(f.age, d)] : f \in rollupDir}
    /\ rollupDir' # rollupDir
    /\ UNCHANGED <<log, change, task, sel>>

\* --------------------------------------------------------------- sessions
\* The sessions that have the mailbox open.
Sessions == {1, 2}

\* Most commits the sessions make between them.
MaxCommits == 2

\* The commits in progress.
InFlight == {v \in DOMAIN sessions : sessions[v].pc # "idle"}

NoTx == [kind |-> "None"]

NoModseq == [uid |-> 0, cid |-> 0]

\* What poll() returns: the UIDs that came to exist, those that were
\* expunged, and those whose flags changed.
Delta(old, new) ==
    LET both == {u \in 1..Len(old.messages) : u <= Len(new.messages)}
    IN  [exists  |-> {u \in 1..Len(new.messages) : u > Len(old.messages)},
         expunge |-> {u \in both : /\ old.messages[u].expunged_at = 0
                                   /\ new.messages[u].expunged_at # 0},
         fetch   |-> {u \in both : old.messages[u].flags # new.messages[u].flags}]

EmptyDelta == [exists |-> {}, expunge |-> {}, fetch |-> {}]

\* A session just opened on the new mailbox.
NewSession ==
    [state |-> EmptyState, pc |-> "idle", tx |-> NoTx, cid |-> 0, failed |-> 0,
     done |-> <<>>, ret |-> NoModseq, delta |-> EmptyDelta, again |-> FALSE,
     fresh |-> FALSE]

\* The mutations a session submits.
SessionTxs == {TxAppend, TxStoreSeen(1), TxExpunge(1), TxDefineFlag("kw")}

\* Mutant of the exclusive create: an existing file is overwritten.
create_overwrites(files, cid) == TRUE

\* O_CREAT|O_EXCL on change/<cid>: succeeds iff no such file exists.
create_excl(files, cid) == cid \notin files

\* Step 1 of the commit protocol: the CID is max(existing_cids) + 1.
allocate_cid(files) == Max(files \cup {0}) + 1

\* The Modseq commit returns: the greatest UID the writer knows (the one it
\* expects for its own message, for an Append) and the CID of the change.
commit_modseq(st, tx, cid) ==
    Modseq(IF tx.kind = "Append" THEN st.next_uid ELSE st.next_uid - 1, cid)

\* Session w starts committing tx: it scans change/ for the next CID.
CommitScan(w, tx) ==
    /\ sessions[w].pc = "idle"
    /\ Len(log) + Cardinality(InFlight) < MaxCommits
    /\ sessions' = [sessions EXCEPT ![w].pc = "create", ![w].tx = tx,
                                    ![w].cid = allocate_cid(change),
                                    ![w].failed = 0]
    /\ UNCHANGED evars

\* On EEXIST the writer goes back to step 1.
CommitRescan(w) ==
    /\ sessions[w].pc = "scan"
    /\ sessions' = [sessions EXCEPT ![w].pc = "create",
                                    ![w].cid = allocate_cid(change)]
    /\ UNCHANGED evars

\* Session w attempts the exclusive create of the file of its CID and, if
\* it gets the name, writes the body of its transaction into it.
CommitCreate(w) ==
    LET me  == sessions[w]
        cid == me.cid
    IN  /\ me.pc = "create"
        /\ IF create_excl(change, cid)
           THEN /\ log' = IF cid > Len(log) THEN Append(log, me.tx)
                          ELSE [log EXCEPT ![cid] = me.tx]
                /\ change' = change \cup {cid}
                /\ sessions' =
                     [v \in DOMAIN sessions |->
                        IF v = w
                        THEN [me EXCEPT !.pc = "idle", !.tx = NoTx, !.cid = 0,
                                        !.done = Append(@, <<cid, me.tx>>),
                                        !.ret = commit_modseq(me.state, me.tx, cid),
                                        !.again = FALSE, !.fresh = FALSE]
                        ELSE [sessions[v] EXCEPT !.fresh = FALSE]]
           ELSE /\ sessions' = [sessions EXCEPT ![w].pc = "scan",
                                                ![w].failed = cid]
                /\ UNCHANGED <<log, change>>
        /\ UNCHANGED <<rollupDir, task, sel>>

\* Session w calls poll().
SessionPoll(w) ==
    LET me == sessions[w]
        st == poll(me.state, change, log)
    IN  /\ me.pc = "idle"
        /\ sessions' = [sessions EXCEPT ![w].state = st,
                                        ![w].delta = Delta(me.state, st),
                                        ![w].again = me.fresh,
                                        ![w].fresh = TRUE]
        /\ UNCHANGED evars

\* ----------------------------------------------------------- session view
\* Most transactions committed to the mailbox a view is open on.
MaxViewTx == 4

\* What an operation on the view returned.
NoResult ==
    [op |-> "none", status |-> "none", error |-> "none", expunged |-> {},
     changed |-> {}, highest_modseq |-> None, from |-> NoModseq,
     notifications |-> <<>>, recent |-> {}, seq |-> 0, copied |-> {}]

\* No mailbox is selected.
NoView ==
    [open |-> FALSE, read_only |-> FALSE, state |-> EmptyState,
     recency_frontier |-> None, marked |-> <<>>, last |-> NoResult]

\* The sequence-number table: the seqnum of the non-expunged UID u.
SeqOf(st, u) ==
    Cardinality({v \in 1..u : st.messages[v].expunged_at = 0})

\* The non-expunged UIDs of the state.
LiveUids(st) == {u \in 1..Len(st.messages) : st.messages[u].expunged_at = 0}

\* Whether the session takes the UID for \Recent: it is above the frontier.
is_recent(frontier, uid) == IF frontier = None THEN TRUE ELSE uid > frontier.some

\* The UIDs a poll that took the state from `old` to `new` marks \Recent:
\* those it brought into the view that are above the frontier.
newly_recent(frontier, old, new) ==
    {u \in Delta(old, new).exists : is_recent(frontier, u)}

RECURSIVE Ascending(_)
Ascending(S) ==
    IF S = {} THEN <<>> ELSE <<Min(S)>> \o Ascending(S \ {Min(S)})

RECURSIVE Descending(_)
Descending(S) ==
    IF S = {} THEN <<>> ELSE <<Max(S)>> \o Descending(S \ {Max(S)})

\* Mutant of the EXPUNGE notifications: lowest sequence number first.
expunge_notifications_ascending(old, uids) ==
    Ascending({SeqOf(old, u) : u \in uids})

\* The EXPUNGE notifications of a poll for the UIDs it found expunged: their
\* sequence numbers in the state before, greatest first.
expunge_notifications(old, uids) ==
    Descending({SeqOf(old, u) : u \in uids})

\* select returned Ok((this, select_response)): the caller keeps `this`,
\* whose poll() inside select marked the replayed messages.
ViewOpen ==
    /\ sel.status = "ok"
    /\ ~view.open
    /\ view' = [open |-> TRUE, read_only |-> sel.read_only, state |-> sel.state,
                recency_frontier |-> sel.recency_frontier,
                marked |-> Ascending(newly_recent(sel.recency_frontier,
                                                  sel.start, sel.state)),
                last |-> [NoResult EXCEPT !.op = "select", !.status = "ok"]]
    /\ sel' = NoSelect
    /\ UNCHANGED <<log, change, rollupDir, task, sessions>>

\* The caller calls poll() on its session. A transaction that does not
\* decode makes poll() return Err with the replay stopped before it, and
\* the session read-only from then on.
ViewPoll ==
    LET old == view.state
        new == poll(old, change, log)
        err == poll_error(old, change, log)
        d   == Delta(old, new)
        rec == newly_recent(view.recency_frontier, old, new)
    IN  /\ view.open
        /\ view' = [view EXCEPT
              !.state = new,
              !.read_only = @ \/ err,
              !.marked = @ \o Ascending(rec),
              !.last = [NoResult EXCEPT
                          !.op = "poll",
                          !.status = IF err THEN "err" ELSE "ok",
                          !.error = IF err THEN "CorruptTransaction" ELSE "none",
                          !.from = IF max_modseq(old) = None THEN NoModseq
                                   ELSE max_modseq(old),
                          !.expunged = d.expunge,
                          !.changed = d.fetch,
                          !.notifications = expunge_notifications(old, d.expunge),
                          !.recent = rec,
                          !.highest_modseq = max_modseq(new)]]
        /\ UNCHANGED <<evars, sessions>>

\* Mutant of the read-only check: the mutation is committed all the same.
mutation_allowed_always(read_only) == TRUE

\* A session commits mutations only if it was not opened read-only.
mutation_allowed(read_only) == ~read_only

\* The caller commits the mutation `tx` through its session: refused with
\* MailboxReadOnly on a read-only session, else written as the next
\* transaction.
ViewCommit(tx) ==
    LET allowed == mutation_allowed(view.read_only)
    IN  /\ view.open
        /\ Idle
        /\ Len(log) < MaxViewTx
        /\ log' = IF allowed THEN Append(log, tx) ELSE log
        /\ change' = IF allowed THEN change \cup {Len(log) + 1} ELSE change
        /\ view' = [view EXCEPT
              !.last = [NoResult EXCEPT
                          !.op = "commit",
                          !.status = IF allowed THEN "ok" ELSE "err",
                          !.error = IF allowed THEN "none" ELSE "MailboxReadOnly",
                          !.highest_modseq =
                              IF allowed
                              THEN commit_modseq(view.state, tx, Len(log) + 1)
                              ELSE None]]
        /\ UNCHANGED <<rollupDir, task, sel, sessions>>

\* Mutant of QRESYNC: the change the client has already seen is reported too.
qresync_inclusive(st, m) ==
    [expunged |-> {u \in 1..Len(st.messages) :
                      /\ st.messages[u].expunged_at # 0
                      /\ st.messages[u].expunged_at >= m.cid},
     changed  |-> {u \in 1..Len(st.messages) :
                      st.messages[u].last_modified >= m.cid},
     highest_modseq |-> max_modseq(st)]

\* QRESYNC for a client that last saw the Modseq m: the UIDs expunged since,
\* told by the expunged_at_cid of their lingering entries, the UIDs whose
\* last_modified_cid is later than m, and the Modseq the state is at.
qresync(st, m) ==
    [expunged |-> {u \in 1..Len(st.messages) : st.messages[u].expunged_at > m.cid},
     changed  |-> {u \in 1..Len(st.messages) : st.messages[u].last_modified > m.cid},
     highest_modseq |-> max_modseq(st)]

\* The Modseqs a client of the mailbox can have last seen: those the mailbox
\* went through.
SeenModseqs(history, upto) ==
    {max_modseq(StateAt(history, k)) : k \in 0..upto} \ {None}

\* The client resynchronises from the Modseq m.
ViewQresync(m) ==
    LET resp == qresync(view.state, m)
    IN  /\ view.open
        /\ view' = [view EXCEPT
                      !.last = [NoResult EXCEPT
                                  !.op = "qresync", !.status = "ok",
                                  !.from = m,
                                  !.expunged = resp.expunged,
                                  !.changed = resp.changed,
                                  !.highest_modseq = resp.highest_modseq]]
        /\ UNCHANGED <<evars, sessions>>

\* Another session commits `tx` under the next CID.
OtherCommit(tx) ==
    /\ Idle
    /\ Len(log) < MaxViewTx
    /\ log' = Append(log, tx)
    /\ change' = change \cup {Len(log) + 1}
    /\ UNCHANGED <<rollupDir, task, sel, svars>>

\* ------------------------------------------------------------ MultiFetcher
\* The kinds of sub-fetcher the add_* methods box (a fetch names each kind
\* at most once in this development).
FetcherKinds == {"Envelope", "BodySection", "Uid"}
\* Most fetchers added to one MultiFetcher.
MaxFetchers == 3
\* Most events, start_part and leaf_section calls of one walk; end and
\* child_result follow from them.
MaxCalls == 3
\* Deepest nesting of parts: the message and one level of parts.
MaxDepth == 2

\* FetchedItem::Nil, the placeholder of an item not yet fetched.
Nil == [by |-> "Nil"]

\* A boxed sub-fetcher: the kind it was added as, the depth of the part it
\* walks, and whether leaf_section has replaced it.
Fetcher(kind, depth) == [kind |-> kind, depth |-> depth, leaf |-> FALSE]

\* The FetchedItem a sub-fetcher produces at its `at`-th call.
Item(fetcher, at) == [by |-> fetcher.kind, depth |-> fetcher.depth, at |-> at]

Ok == [ok |-> TRUE]

Err(x) == [err |-> x]

IsErr(res) == "err" \in DOMAIN res

\* The walk ended in a panic.
Panic == [panic |-> TRUE]

\* MultiFetcher::new(): Self::default().
new == [fetchers |-> <<>>, results |-> <<>>, remaining |-> 0]

add_fetcher(self, fetcher) ==
    [fetchers  |-> Append(self.fetchers, Some(fetcher)),
     results   |-> Append(self.results, Nil),
     remaining |-> self.remaining + 1]

\* The indices whose sub-fetcher has not produced its result yet.
Live(self) == {i \in 1..Len(self.fetchers) : self.fetchers[i] # None}

\* What the sub-fetchers may answer to one call: each live one either goes on
\* (Ok) or finishes with its item (Err); `.as_mut().map(&mut f)
\* .unwrap_or(Ok(()))` answers Ok for a slot that is None.
Answers(self, at) ==
    {[i \in 1..Len(self.fetchers) |->
         IF i \in D THEN Err(Item(self.fetchers[i].some, at)) ELSE Ok] :
     D \in SUBSET Live(self)}

\* fetcher.end() of every live sub-fetcher.
EndAnswer(self, at) ==
    [i \in 1..Len(self.fetchers) |->
        IF i \in Live(self) THEN Err(Item(self.fetchers[i].some, at)) ELSE Ok]

results_in_completion_order(results, f) ==
    LET n     == Len(results)
        had   == {i \in 1..n : results[i] # Nil}
        now   == {i \in 1..n : IsErr(f[i])} \ had
        k     == Cardinality(had)
        nth(S, j) == CHOOSE i \in S : Cardinality({x \in S : x < i}) = j - 1
    IN  [j \in 1..n |->
            IF j <= k THEN results[j]
            ELSE IF j <= k + Cardinality(now) THEN f[nth(now, j - k)].err
            ELSE Nil]

\* `self.results[i] = result` for every i whose sub-fetcher answered Err.
store_results(results, f) ==
    [i \in 1..Len(results) |-> IF IsErr(f[i]) THEN f[i].err ELSE results[i]]

\* Mutant of on_fetchers: a sub-fetcher that answered Err keeps its slot.
on_fetchers_keeps_fetcher(self, f) ==
    LET n     == Len(self.fetchers)
        done  == {i \in Live(self) : IsErr(f[i])}
        g     == [i \in 1..n |-> IF i \in done THEN f[i] ELSE Ok]
        after == [fetchers  |-> self.fetchers,
                  results   |-> store_results(self.results, g),
                  remaining |-> self.remaining - Cardinality(done)]
    IN  IF after.remaining = 0
        THEN <<[after EXCEPT !.results = <<>>], Err(after.results)>>
        ELSE <<after, Ok>>

\* The for loop over the slots, then `if 0 == self.remaining
\* { Err(mem::take(&mut self.results)) } else { Ok(()) }`: the MultiFetcher
\* afterwards and what the call returns. f[i] is what the closure answers for
\* the sub-fetcher of slot i.
on_fetchers(self, f) ==
    LET n     == Len(self.fetchers)
        done  == {i \in Live(self) : IsErr(f[i])}
        g     == [i \in 1..n |-> IF i \in done THEN f[i] ELSE Ok]
        after == [fetchers  |-> [i \in 1..n |->
                                    IF i \in done THEN None ELSE self.fetchers[i]],
                  results   |-> store_results(self.results, g),
                  remaining |-> self.remaining - Cardinality(done)]
    IN  IF after.remaining = 0
        THEN <<[after EXCEPT !.results = <<>>], Err(after.results)>>
        ELSE <<after, Ok>>

\* The same loop and return; each live sub-fetcher is handed child[i] (taken
\* out of the vector with mem::replace), and f[i] is what it answers.
child_result(self, child, f) == on_fetchers(self, f)

\* `has` are the sub-fetchers whose own start_part returns Some.
start_part(self, has) ==
    LET n   == Len(self.fetchers)
        in  == has \cap Live(self)
        sub == [fetchers  |-> [i \in 1..n |->
                                  IF i \in in
                                  THEN Some(Fetcher(self.fetchers[i].some.kind,
                                                    self.fetchers[i].some.depth + 1))
                                  ELSE None],
                results   |-> [i \in 1..n |-> Nil],
                remaining |-> Cardinality(in)]
    IN  IF sub.remaining > 0 THEN Some(sub) ELSE None

\* `has` are the sub-fetchers whose own leaf_section returns a replacement.
leaf_section(self, has) ==
    [self EXCEPT !.fetchers =
        [i \in 1..Len(self.fetchers) |->
            IF i \in has \cap Live(self)
            THEN Some([self.fetchers[i].some EXCEPT !.leaf = TRUE])
            ELSE self.fetchers[i]]]

FetchIdle ==
    /\ multi = <<new>>
    /\ pending = None
    /\ output = None
    /\ added = <<>>
    /\ calls = 0

Walking == output = None /\ pending = None /\ multi # <<>>

\* The innermost MultiFetcher finished with `res`: the walk hands it to the
\* enclosing part, or returns it when there is none.
Finish(self, res) ==
    IF Len(multi) = 1
    THEN /\ multi' = <<self>>
         /\ output' = Some(res)
         /\ UNCHANGED pending
    ELSE /\ multi' = SubSeq(multi, 1, Len(multi) - 1)
         /\ pending' = Some(res)
         /\ UNCHANGED output

\* One of the add_* methods, before the walk starts.
AddFetcher(kind) ==
    /\ Walking /\ calls = 0
    /\ Len(added) < MaxFetchers
    /\ \A i \in 1..Len(added) : added[i] # kind
    /\ multi' = <<add_fetcher(multi[1], Fetcher(kind, 0))>>
    /\ added' = Append(added, kind)
    /\ UNCHANGED <<pending, output, calls>>

\* Any of the Visitor methods that go through on_fetchers (uid, flags,
\* header, content, ...).
VisitEvent(f) ==
    /\ Walking /\ calls < MaxCalls
    /\ calls' = calls + 1
    /\ LET ret == on_fetchers(multi[Len(multi)], f)
       IN  IF IsErr(ret[2])
           THEN Finish(ret[1], ret[2].err)
           ELSE /\ multi' = [multi EXCEPT ![Len(multi)] = ret[1]]
                /\ UNCHANGED <<pending, output>>
    /\ UNCHANGED added

VisitLeafSection(has) ==
    /\ Walking /\ calls < MaxCalls
    /\ calls' = calls + 1
    /\ multi' = [multi EXCEPT ![Len(multi)] = leaf_section(@, has)]
    /\ UNCHANGED <<pending, output, added>>

VisitStartPart(has) ==
    /\ Walking /\ calls < MaxCalls
    /\ Len(multi) < MaxDepth
    /\ calls' = calls + 1
    /\ LET sub == start_part(multi[Len(multi)], has)
       IN  multi' = IF sub = None THEN multi ELSE Append(multi, sub.some)
    /\ UNCHANGED <<pending, output, added>>

\* Visitor::end of the innermost MultiFetcher: `.expect_err(..)` panics on
\* Ok.
VisitEnd ==
    /\ Walking
    /\ calls' = calls + 1
    /\ LET ret == on_fetchers(multi[Len(multi)],
                            EndAnswer(multi[Len(multi)], calls + 1))
       IN  IF IsErr(ret[2])
           THEN Finish(ret[1], ret[2].err)
           ELSE /\ output' = Panic
                /\ UNCHANGED <<multi, pending>>
    /\ UNCHANGED added

\* Visitor::child_result of the MultiFetcher of the enclosing part.
VisitChildResult(f) ==
    /\ output = None /\ pending # None
    /\ calls' = calls + 1
    /\ LET ret == child_result(multi[Len(multi)], pending.some, f)
       IN  IF IsErr(ret[2])
           THEN IF Len(multi) = 1
                THEN /\ multi' = <<ret[1]>>
                     /\ output' = Some(ret[2].err)
                     /\ pending' = None
                ELSE /\ multi' = SubSeq(multi, 1, Len(multi) - 1)
                     /\ pending' = Some(ret[2].err)
                     /\ UNCHANGED output
           ELSE /\ multi' = [multi EXCEPT ![Len(multi)] = ret[1]]
                /\ pending' = None
                /\ UNCHANGED output
    /\ UNCHANGED added

\* ------------------------------------------------------------------ LOGIN
\* Most entries pushed onto log_prefix before LOGIN is no longer offered.
MaxLogPrefix == 3

\* nix::unistd::ROOT
ROOT == 0

\* The user ids a LOGIN command may carry; is_safe_name rejects the last.
UserIds == {"azure", "zed", "../etc"}
is_safe_name(userid) == userid # "../etc"

\* What the operating system and the account store answer during one LOGIN:
\*   lookup  the user's config file: cannot be opened ("no_user"), cannot
\*           be read or parsed ("unreadable"), does not yield a master key
\*           for the password ("bad_password"), or does ("ok")
\*   md      user_dir.metadata(): None on error, else the owner and group
\*   passwd  User::from_uid and initgroups
\*   chroot  chdir then chroot: the first call to fail, or "ok"
\*   drop    setgroups, setgid, setuid: the first call to fail, or "ok"
\*   init    account.init
LookupFailures == {"no_user", "unreadable", "bad_password"}

Envs ==
    [lookup : LookupFailures \cup {"ok"},
     md     : {None} \cup {Some([uid |-> u, gid |-> g]) : u, g \in {ROOT, 1}},
     passwd : {"initgroups_ok", "initgroups_err", "no_entry", "lookup_err"},
     chroot : {"chdir_err", "chroot_err", "ok"},
     drop   : {"setgroups_err", "setgid_err", "setuid_err", "ok"},
     init   : BOOLEAN]

Cond(cond, quip) == Some([cond |-> cond, quip |-> quip])
AlreadyLoggedIn == Cond("Bad", "Already logged in")
IllegalUserId == Cond("No", "Illegal user id")
BadUserIdOrPassword == Cond("No", "Bad user id or password")
LoginSuccessful == Cond("Ok", "User login successful")
\* account.init(..).map_err(map_error!(self))
InitError == Cond("Error", "map_error")

\* Err(Bye, Alert, "Fatal internal error or misconfiguration; ...")
auth_misconfiguration == Cond("Bye", "Fatal internal error or misconfiguration")

\* CommandProcessor as a connection starts, in a process with user id `uid`.
NewProcessor(uid) ==
    [account |-> None, log_prefix |-> <<>>, uid |-> uid, gid |-> uid,
     groups |-> {uid}, root |-> None, cwd |-> None, response |-> None]

\* fs::File::open(..).ok().and_then(read, parse).and_then(from_config):
\* whichever step fails, the chain yields None.
authenticate(cmd, env) ==
    IF env.lookup = "ok" THEN Some(cmd.userid) ELSE None

\* Mutant of drop_privelages: the final getuid() test is left out.
drop_privelages_unchecked(self, userid, env) ==
    IF ROOT # self.uid THEN <<self, Ok>>
    ELSE IF env.md = None THEN <<self, Err(auth_misconfiguration)>>
    ELSE
        LET target_uid == env.md.some.uid
            has_user_groups == env.passwd = "initgroups_ok"
            target_gid == IF env.passwd \in {"initgroups_ok", "initgroups_err"}
                          THEN target_uid ELSE env.md.some.gid
            grouped == IF has_user_groups
                       THEN [self EXCEPT !.groups = {target_gid}] ELSE self
            moved == IF env.chroot = "chdir_err" THEN grouped
                     ELSE [grouped EXCEPT !.cwd = Some(userid)]
        IN  IF env.chroot # "ok" THEN <<moved, Err(auth_misconfiguration)>>
            ELSE
                LET jailed == [moved EXCEPT
                                  !.root = Some(userid),
                                  !.log_prefix = Append(@, <<"chroot", userid>>)]
                    fails == IF env.drop = "setgroups_err" /\ has_user_groups
                             THEN "ok" ELSE env.drop
                    g1 == IF ~has_user_groups /\ fails # "setgroups_err"
                          THEN [jailed EXCEPT !.groups = {target_gid}]
                          ELSE jailed
                    g2 == IF fails \in {"setuid_err", "ok"}
                          THEN [g1 EXCEPT !.gid = target_gid] ELSE g1
                    g3 == IF fails = "ok"
                          THEN [g2 EXCEPT !.uid = target_uid] ELSE g2
                IN  IF fails # "ok" THEN <<g3, Err(auth_misconfiguration)>>
                    ELSE <<g3, Ok>>

\* CommandProcessor::drop_privelages: nothing when the process is not root;
\* else stat the user directory, settle the groups, chdir and chroot into
\* it, setgroups/setgid/setuid to its owner, and refuse to go on as root.
drop_privelages(self, userid, env) ==
    LET ret == drop_privelages_unchecked(self, userid, env)
    IN  IF ROOT # self.uid \/ IsErr(ret[2]) THEN ret
        ELSE IF ROOT = ret[1].uid THEN <<ret[1], Err(auth_misconfiguration)>>
        ELSE ret

\* Mutant of cmd_log_in: the log prefix is extended before the user is
\* looked up.
cmd_log_in_prefix_first(self, cmd, env) ==
    IF self.account # None THEN [self EXCEPT !.response = AlreadyLoggedIn]
    ELSE IF ~is_safe_name(cmd.userid)
    THEN [self EXCEPT !.response = IllegalUserId]
    ELSE
        LET named == [self EXCEPT
                         !.log_prefix = Append(@, <<"~", cmd.userid>>)]
            dropped == drop_privelages(named, cmd.userid, env)
        IN  IF authenticate(cmd, env) = None
            THEN [named EXCEPT !.response = BadUserIdOrPassword]
            ELSE IF IsErr(dropped[2])
            THEN [dropped[1] EXCEPT !.response = dropped[2].err]
            ELSE IF ~env.init
            THEN [dropped[1] EXCEPT !.response = InitError]
            ELSE [dropped[1] EXCEPT !.account = Some(cmd.userid),
                                    !.response = LoginSuccessful]

\* CommandProcessor::cmd_log_in; the response is kept in `response`.
cmd_log_in(self, cmd, env) ==
    IF self.account # None THEN [self EXCEPT !.response = AlreadyLoggedIn]
    ELSE IF ~is_safe_name(cmd.userid)
    THEN [self EXCEPT !.response = IllegalUserId]
    ELSE IF authenticate(cmd, env) = None
    THEN [self EXCEPT !.response = BadUserIdOrPassword]
    ELSE
        LET named == [self EXCEPT
                         !.log_prefix = Append(@, <<"~", cmd.userid>>)]
            dropped == drop_privelages(named, cmd.userid, env)
        IN  IF IsErr(dropped[2])
            THEN [dropped[1] EXCEPT !.response = dropped[2].err]
            ELSE IF ~env.init
            THEN [dropped[1] EXCEPT !.response = InitError]
            ELSE [dropped[1] EXCEPT !.account = Some(cmd.userid),
                                    !.response = LoginSuccessful]

LoginIdle == conn = NewProcessor(ROOT)

\* One LOGIN command handled by the processor.
LogIn(cmd, env) ==
    /\ Len(conn.log_prefix) < MaxLogPrefix
    /\ conn' = cmd_log_in(conn, cmd, env)
    /\ UNCHANGED <<client, smtp, stat>>

\* ----------------------------------------------------------------- Client
\* Most bytes of one literal, and most bytes the client has written before
\* a further append call is no longer offered.
MaxData == 1
MaxWire == 3

\* Bytes are one-character strings; CR and LF are the two line-end bytes.
CR == "CR"
LF == "LF"
CRLF == <<CR, LF>>

Digits == <<"0", "1", "2", "3", "4", "5", "6", "7", "8", "9">>
IsDigit(b) == \E i \in 1..10 : Digits[i] = b
DigitValue(b) == (CHOOSE i \in 1..10 : Digits[i] = b) - 1

starts_with(s, prefix) ==
    Len(s) >= Len(prefix) /\ SubSeq(s, 1, Len(prefix)) = prefix
ends_with(s, suffix) ==
    Len(s) >= Len(suffix) /\ SubSeq(s, Len(s) - Len(suffix) + 1, Len(s)) = suffix

\* str::parse::<u32>() of a run of digits.
RECURSIVE ParseDigits(_)
ParseDigits(ds) ==
    IF ds = <<>> THEN 0
    ELSE 10 * ParseDigits(SubSeq(ds, 1, Len(ds) - 1)) + DigitValue(ds[Len(ds)])

\* The markers of ServerAnswers have one digit; a run of up to nine digits
\* always fits a u32, so that parse() does not fail on them.
parse_u32(ds) == Some(ParseDigits(ds))

\* BufRead::read_until(b'\n', ..): the bytes up to and including the first
\* LF, or all of the stream when it ends before one.
read_until(stream) ==
    IF \E i \in 1..Len(stream) : stream[i] = LF
    THEN SubSeq(stream, 1, CHOOSE i \in 1..Len(stream) :
                               /\ stream[i] = LF
                               /\ \A j \in 1..(i - 1) : stream[j] # LF)
    ELSE stream

\* LITERAL_AT_EOL, ~?\{([0-9]+)?\}\r\n$ : on a match the run of digits
\* between the braces, which is empty when the group did not take part.
LITERAL_AT_EOL(line) ==
    IF ~ends_with(line, <<"}", CR, LF>>) THEN None
    ELSE LET close == Len(line) - 2
             open == CHOOSE i \in 0..(close - 1) :
                        /\ \A j \in (i + 1)..(close - 1) : IsDigit(line[j])
                        /\ i > 0 => ~IsDigit(line[i])
         IN  IF open > 0 /\ line[open] = "{"
             THEN Some(SubSeq(line, open + 1, close - 1))
             ELSE None

\* Client::read_logical_line: lines are read until one does not end with a
\* literal marker; after a marker {n} the n bytes of the literal are read.
\* Yields what became of the call, the bytes put into dst and the bytes left
\* in the stream. cap.get(1).unwrap() panics on the marker {}.
RECURSIVE read_logical_line(_, _)
read_logical_line(stream, dst) ==
    LET line == read_until(stream)
        nread == Len(line)
        rest == SubSeq(stream, nread + 1, Len(stream))
        got == dst \o line
        cap == LITERAL_AT_EOL(line)
        literal_len == IF cap = None THEN None ELSE parse_u32(cap.some)
    IN  IF nread = 0 \/ ~ends_with(got, CRLF)
        THEN [res |-> "Io", dst |-> got, rest |-> rest]
        ELSE IF cap # None /\ cap.some = <<>>
        THEN [res |-> "Panic", dst |-> got, rest |-> rest]
        ELSE IF literal_len = None
        THEN [res |-> "Ok", dst |-> got, rest |-> rest]
        ELSE IF literal_len.some > Len(rest)
        THEN [res |-> "Io", dst |-> got \o rest, rest |-> <<>>]
        ELSE read_logical_line(
                 SubSeq(rest, literal_len.some + 1, Len(rest)),
                 got \o SubSeq(rest, 1, literal_len.some))

\* What the server may have sent by the time an append call reads: a
\* continuation, with or without text; other lines; a line ending with a
\* literal; a line that is not ended by CRLF; nothing before it closes.
ServerAnswers ==
    {<<"+", " ", CR, LF>>,
     <<"+", " ", "g", "o", CR, LF>>,
     <<"+", CR, LF>>,
     <<"N", "O", CR, LF>>,
     <<"N", "O", CR, LF, "+", " ", CR, LF>>,
     <<"N", "O", LF>>,
     <<>>,
     <<"+", " ">>,
     <<"N", "O", " ", "{", "}", CR, LF>>,
     <<"+", " ", "{", "1", "}", CR, LF, "x", CR, LF>>,
     <<"+", " ", "{", "2", "}", CR, LF, "x">>}

\* The bytes an append call writes: the command or fragment with its
\* literal marker {n}\r\n (one unit: its spelling is the lex writer's), each
\* byte of the literal, and the closing parenthesis of a UTF8 literal.
RequestBytes(tag, n) == <<[b |-> "request", tag |-> tag, n |-> n]>>
LiteralBytes(n) == [i \in 1..n |-> [b |-> "literal"]]
CloseParen == <<[b |-> ")"]>>

\* Client::new, with nothing written and nothing received.
NewClient ==
    [next_tag |-> 0, write |-> <<>>, flushed |-> 0, read |-> <<>>,
     response_buffer |-> <<>>, result |-> None]

\* Mutant of AppendExchange: the literal follows the request at once and
\* the line is read afterwards.
AppendExchange_eager(self, tag, utf8, n) ==
    LET asked == [self EXCEPT
                     !.write = @ \o RequestBytes(tag, n) \o LiteralBytes(n)
                                 \o (IF utf8 THEN CloseParen ELSE <<>>)]
        line == read_logical_line(asked.read, <<>>)
        heard == [asked EXCEPT !.read = line.rest,
                               !.response_buffer = line.dst]
    IN  IF line.res # "Ok"
        THEN [heard EXCEPT !.result = Some(line.res)]
        ELSE IF ~starts_with(line.dst, <<"+", " ">>)
        THEN [heard EXCEPT !.result = Some("AppendRejected")]
        ELSE [heard EXCEPT !.flushed = Len(heard.write),
                           !.result = Some("Ok")]

\* The part start_append and append_item share: write the request, read a
\* logical line, give up unless it starts with "+ ", write the literal and
\* the parenthesis, flush.
AppendExchange(self, tag, utf8, n) ==
    LET asked == [self EXCEPT !.write = @ \o RequestBytes(tag, n)]
        line == read_logical_line(asked.read, <<>>)
        heard == [asked EXCEPT !.read = line.rest,
                               !.response_buffer = line.dst]
    IN  IF line.res # "Ok"
        THEN [heard EXCEPT !.result = Some(line.res)]
        ELSE IF ~starts_with(line.dst, <<"+", " ">>)
        THEN [heard EXCEPT !.result = Some("AppendRejected")]
        ELSE [heard EXCEPT
                 !.write = @ \o LiteralBytes(n)
                             \o (IF utf8 THEN CloseParen ELSE <<>>),
                 !.flushed = Len(heard.write) + n + (IF utf8 THEN 1 ELSE 0),
                 !.result = Some("Ok")]

\* Client::start_append: the command carries the next tag.
start_append(self, utf8, n) ==
    AppendExchange([self EXCEPT !.next_tag = @ + 1], Some(self.next_tag),
                   utf8, n)

\* Client::append_item: a further fragment of the same command.
append_item(self, utf8, n) == AppendExchange(self, None, utf8, n)

ClientIdle == client = NewClient

\* start_append(mailbox, frag, data), the server having sent `answer`.
StartAppend(utf8, n, answer) ==
    /\ Len(client.write) < MaxWire
    /\ client' = start_append([client EXCEPT !.read = @ \o answer], utf8, n)
    /\ UNCHANGED <<conn, smtp, stat>>

\* append_item(frag, data), the server having sent `answer`.
AppendItem(utf8, n, answer) ==
    /\ Len(client.write) < MaxWire
    /\ client' = append_item([client EXCEPT !.read = @ \o answer], utf8, n)
    /\ UNCHANGED <<conn, smtp, stat>>

\* ------------------------------------------------------------------- SMTP
\* Longest tail put after the heads of SmtpHeads to make a line.
MaxTail == 2

UpperCase == <<"A", "B", "C", "D", "E", "F", "G", "H", "I", "J", "K", "L", "M", "N", "O", "P", "Q", "R", "S", "T", "U", "V", "W", "X", "Y", "Z">>
LowerCase == <<"a", "b", "c", "d", "e", "f", "g", "h", "i", "j", "k", "l", "m", "n", "o", "p", "q", "r", "s", "t", "u", "v", "w", "x", "y", "z">>

IsUpper(c) == \E i \in 1..26 : UpperCase[i] = c
IsLower(c) == \E i \in 1..26 : LowerCase[i] = c
to_ascii_uppercase(c) ==
    IF IsLower(c) THEN UpperCase[CHOOSE i \in 1..26 : LowerCase[i] = c] ELSE c
to_ascii_lowercase(c) ==
    IF IsUpper(c) THEN LowerCase[CHOOSE i \in 1..26 : UpperCase[i] = c] ELSE c

eq_ignore_ascii_case(a, b) ==
    /\ Len(a) = Len(b)
    /\ \A i \in 1..Len(a) : to_ascii_uppercase(a[i]) = to_ascii_uppercase(b[i])

\* A literal of a (?i) pattern at the start of s (ASCII lines only).
StartsWithCI(s, lit) ==
    Len(s) >= Len(lit) /\ eq_ignore_ascii_case(lit, SubSeq(s, 1, Len(lit)))

After(s, k) == SubSeq(s, k + 1, Len(s))

\* Index of the first c in s, 0 when there is none.
IndexOf(s, c) ==
    IF \E i \in 1..Len(s) : s[i] = c
    THEN CHOOSE i \in 1..Len(s) : s[i] = c /\ \A j \in 1..(i - 1) : s[j] # c
    ELSE 0

\* Length of the longest prefix of s made of characters of the class.
RunOf(s, InClass(_)) ==
    IF \E i \in 1..Len(s) : ~InClass(s[i])
    THEN (CHOOSE i \in 1..Len(s) :
              ~InClass(s[i]) /\ \A j \in 1..(i - 1) : InClass(s[j])) - 1
    ELSE Len(s)

\* Result::Ok(x) of a parse.
OkOf(x) == [ok |-> x]

\* SIMPLE_COMMANDS: prefix, command, allow_trailing_garbage.
SIMPLE_COMMANDS ==
    <<[prefix |-> <<"D", "A", "T", "A">>, cmd |-> "Data", garbage |-> FALSE],
      [prefix |-> <<"R", "S", "E", "T">>, cmd |-> "Reset", garbage |-> FALSE],
      [prefix |-> <<"V", "R", "F", "Y", " ">>, cmd |-> "Verify", garbage |-> TRUE],
      [prefix |-> <<"E", "X", "P", "N", " ">>, cmd |-> "Expand", garbage |-> TRUE],
      [prefix |-> <<"H", "E", "L", "P">>, cmd |-> "Help", garbage |-> TRUE],
      [prefix |-> <<"N", "O", "O", "P">>, cmd |-> "Noop", garbage |-> FALSE],
      [prefix |-> <<"Q", "U", "I", "T">>, cmd |-> "Quit", garbage |-> FALSE],
      [prefix |-> <<"S", "T", "A", "R", "T", "T", "L", "S">>, cmd |-> "StartTls", garbage |-> FALSE]>>

\* The test of the for loop of from_str for one entry of SIMPLE_COMMANDS.
SimpleMatch(s, e) ==
    /\ Len(s) >= Len(e.prefix)
    /\ e.garbage \/ Len(s) = Len(e.prefix)
    /\ eq_ignore_ascii_case(e.prefix, SubSeq(s, 1, Len(e.prefix)))

\* RX_HELO, ^(?i)(HELO|EHLO|LHLO) ([^ ]*) : the two groups, or None.
RX_HELO(s) ==
    IF \E word \in {<<"H", "E", "L", "O">>, <<"E", "H", "L", "O">>, <<"L", "H", "L", "O">>} :
           StartsWithCI(s, word \o <<" ">>)
    THEN Some(<<SubSeq(s, 1, 4),
                SubSeq(s, 6, 5 + RunOf(After(s, 5), LAMBDA c : c # " "))>>)
    ELSE None

\* The tail of RX_MAIL, (?: BODY=(?:7BIT|8BITMIME|BINARYMIME)| SIZE=([0-9]+))*$
\* : the digits of the last SIZE (none: <<>>), or None when it does not match.
RECURSIVE MailParams(_, _)
MailParams(rest, size) ==
    IF rest = <<>> THEN Some(size)
    ELSE IF StartsWithCI(rest, <<" ", "B", "O", "D", "Y", "=", "7", "B", "I", "T">>)
    THEN MailParams(After(rest, 10), size)
    ELSE IF StartsWithCI(rest, <<" ", "B", "O", "D", "Y", "=", "8", "B", "I", "T", "M", "I", "M", "E">>)
    THEN MailParams(After(rest, 14), size)
    ELSE IF StartsWithCI(rest, <<" ", "B", "O", "D", "Y", "=", "B", "I", "N", "A", "R", "Y", "M", "I", "M", "E">>)
    THEN MailParams(After(rest, 16), size)
    ELSE IF /\ StartsWithCI(rest, <<" ", "S", "I", "Z", "E", "=">>)
            /\ RunOf(After(rest, 6), IsDigit) > 0
    THEN MailParams(After(rest, 6 + RunOf(After(rest, 6), IsDigit)),
                    SubSeq(rest, 7, 6 + RunOf(After(rest, 6), IsDigit)))
    ELSE None

\* RX_MAIL, ^(?i)MAIL FROM:<([^>]*)>(..)*$ : the two groups, or None.
RX_MAIL(s) ==
    LET from == After(s, 11)
        gt == IndexOf(from, ">")
    IN  IF StartsWithCI(s, <<"M", "A", "I", "L", " ", "F", "R", "O", "M", ":", "<">>) /\ gt > 0
             /\ MailParams(After(from, gt), <<>>) # None
        THEN Some(<<SubSeq(from, 1, gt - 1),
                    MailParams(After(from, gt), <<>>).some>>)
        ELSE None

\* RX_RCPT, ^(?i)RCPT TO:<(?:@[^:]+:)?([^>]+)>$ : the group, or None. The
\* source route is taken when the rest then still matches.
RX_RCPT(s) ==
    LET m == SubSeq(s, 10, Len(s) - 1)
        Plain(x) == x # <<>> /\ \A i \in 1..Len(x) : x[i] # ">"
        Routes == {k \in 3..Len(m) :
                      /\ m[1] = "@"
                      /\ m[k] = ":"
                      /\ \A j \in 2..(k - 1) : m[j] # ":"
                      /\ Plain(After(m, k))}
    IN  IF ~(StartsWithCI(s, <<"R", "C", "P", "T", " ", "T", "O", ":", "<">>) /\ Len(s) >= 10
             /\ s[Len(s)] = ">")
        THEN None
        ELSE IF Routes # {} THEN Some(After(m, CHOOSE k \in Routes : TRUE))
        ELSE IF Plain(m) THEN Some(m)
        ELSE None

\* RX_BDAT, ^(?i)BDAT ([0-9]+)( LAST)?$ : the digits and whether LAST is
\* there, or None.
RX_BDAT(s) ==
    LET n == RunOf(After(s, 5), IsDigit)
        rest == After(s, 5 + n)
    IN  IF StartsWithCI(s, <<"B", "D", "A", "T", " ">>) /\ n > 0
             /\ (rest = <<>> \/ eq_ignore_ascii_case(rest, <<" ", "L", "A", "S", "T">>))
        THEN Some(<<SubSeq(s, 6, 5 + n), rest # <<>>>>)
        ELSE None

IsMechanismChar(c) == IsUpper(c) \/ IsLower(c) \/ IsDigit(c) \/ c = "-"
IsBase64Char(c) == IsUpper(c) \/ IsLower(c) \/ IsDigit(c) \/ c \in {"+", "/", "="}

\* RX_AUTH, ^(?i)AUTH ([A-Z0-9-]+)(?: ([0-9A-Za-z+/=]+))?$ : the mechanism
\* and the data (<<>> without the second group), or None.
RX_AUTH(s) ==
    LET n == RunOf(After(s, 5), IsMechanismChar)
        rest == After(s, 5 + n)
    IN  IF StartsWithCI(s, <<"A", "U", "T", "H", " ">>) /\ n > 0
             /\ \/ rest = <<>>
                \/ /\ Len(rest) >= 2
                   /\ rest[1] = " "
                   /\ RunOf(After(rest, 1), IsBase64Char) = Len(rest) - 1
        THEN Some(<<SubSeq(s, 6, 5 + n), After(rest, 1)>>)
        ELSE None

KnownWords ==
    {<<"D", "A", "T", "A">>,
     <<"R", "S", "E", "T">>,
     <<"V", "R", "F", "Y">>,
     <<"E", "X", "P", "N">>,
     <<"H", "E", "L", "P">>,
     <<"N", "O", "O", "P">>,
     <<"Q", "U", "I", "T">>,
     <<"S", "T", "A", "R", "T", "T", "L", "S">>,
     <<"L", "H", "L", "O">>,
     <<"M", "A", "I", "L">>,
     <<"R", "C", "P", "T">>,
     <<"B", "D", "A", "T">>,
     <<"H", "E", "L", "O">>,
     <<"E", "H", "L", "O">>,
     <<"A", "U", "T", "H">>}

\* RX_KNOWN_COMMANDS, ^(?i)(DATA|..|AUTH)( .*)?$ ; `.` stands for any
\* character but the line feed.
RX_KNOWN_COMMANDS(s) ==
    \E word \in KnownWords :
        /\ StartsWithCI(s, word)
        /\ \/ Len(s) = Len(word)
           \/ /\ s[Len(word) + 1] = " "
              /\ \A i \in (Len(word) + 2)..Len(s) : s[i] # LF

looks_like_known_command(s) == RX_KNOWN_COMMANDS(s)

\* str::parse::<u64>() of a run of digits: the lines of this development
\* have runs far shorter than the twenty digits that overflow.
parse_u64(ds) == OkOf(ParseDigits(ds))

\* <Command as FromStr>::from_str
from_str(s) ==
    IF \E i \in 1..Len(SIMPLE_COMMANDS) : SimpleMatch(s, SIMPLE_COMMANDS[i])
    THEN OkOf([cmd |-> SIMPLE_COMMANDS[
                   CHOOSE i \in 1..Len(SIMPLE_COMMANDS) :
                       /\ SimpleMatch(s, SIMPLE_COMMANDS[i])
                       /\ \A j \in 1..(i - 1) :
                              ~SimpleMatch(s, SIMPLE_COMMANDS[j])].cmd])
    ELSE IF RX_HELO(s) # None
    THEN OkOf([cmd |-> "Helo", command |-> RX_HELO(s).some[1],
               origin |-> RX_HELO(s).some[2]])
    ELSE IF RX_MAIL(s) # None
    THEN IF RX_MAIL(s).some[2] = <<>>
         THEN OkOf([cmd |-> "MailFrom", path |-> RX_MAIL(s).some[1],
                    size |-> None])
         ELSE IF IsErr(parse_u64(RX_MAIL(s).some[2])) THEN Err(<<>>)
         ELSE OkOf([cmd |-> "MailFrom", path |-> RX_MAIL(s).some[1],
                    size |-> Some(parse_u64(RX_MAIL(s).some[2]).ok)])
    ELSE IF RX_RCPT(s) # None
    THEN OkOf([cmd |-> "Recipient", email |-> RX_RCPT(s).some])
    ELSE IF RX_BDAT(s) # None
    THEN IF IsErr(parse_u64(RX_BDAT(s).some[1])) THEN Err(<<>>)
         ELSE OkOf([cmd |-> "BinaryData",
                    len |-> parse_u64(RX_BDAT(s).some[1]).ok,
                    last |-> RX_BDAT(s).some[2]])
    ELSE IF RX_AUTH(s) # None
    THEN OkOf([cmd |-> "Auth", mechanism |-> RX_AUTH(s).some[1],
               data |-> IF RX_AUTH(s).some[2] = <<>> THEN None
                        ELSE Some(RX_AUTH(s).some[2])])
    ELSE Err(<<>>)

\* The lines of this development: a head followed by a tail. The heads are
\* the command words in upper and lower case, whole commands and beginnings
\* of commands; the tails are all strings of up to MaxTail characters out of
\* a space, a letter, a digit and a line feed.
SmtpWords ==
    KnownWords \cup {<<"D", "A", "T", "A", "B", "A", "S", "E">>, <<"X", "X", "X", "X">>, <<"H", "e", "L", "p">>, <<>>}

SmtpCommands ==
    {<<"M", "A", "I", "L", " ", "F", "R", "O", "M", ":", "<">>,
     <<"M", "A", "I", "L", " ", "F", "R", "O", "M", ":", "<", ">">>,
     <<"M", "A", "I", "L", " ", "F", "R", "O", "M", ":", "<", "x", ">">>,
     <<"M", "A", "I", "L", " ", "F", "R", "O", "M", ":", "<", "x", ">", " ", "S", "I", "Z", "E", "=", "1">>,
     <<"M", "A", "I", "L", " ", "F", "R", "O", "M", ":", "<", "x", ">", " ", "B", "O", "D", "Y", "=", "7", "B", "I", "T">>,
     <<"M", "A", "I", "L", " ", "F", "R", "O", "M", ":", "<", "x", ">", " ", "b", "o", "d", "y", "=", "8", "b", "i", "t", "m", "i", "m", "e", " ", "s", "i", "z", "e", "=", "4", "2">>,
     <<"M", "A", "I", "L", " ", "F", "R", "O", "M", ":", "<", "x", ">", " ", "B", "O", "D", "Y", "=", "B", "I", "N", "A", "R", "Y", "M", "I", "M", "E">>,
     <<"M", "A", "I", "L", " ", "F", "R", "O", "M", ":", "<", "x", ">", " ", "S", "I", "Z", "E", "=">>,
     <<"R", "C", "P", "T", " ", "T", "O", ":", "<">>,
     <<"R", "C", "P", "T", " ", "T", "O", ":", "<", ">">>,
     <<"R", "C", "P", "T", " ", "T", "O", ":", "<", "x", ">">>,
     <<"R", "C", "P", "T", " ", "T", "O", ":", "<", "@", "x", ":", "x", ">">>,
     <<"R", "C", "P", "T", " ", "T", "O", ":", "<", "@", "x", ",", "@", "y", ":", "x", ">">>,
     <<"B", "D", "A", "T", " ", "1">>,
     <<"B", "D", "A", "T", " ", "1", " ", "L", "A", "S", "T">>,
     <<"A", "U", "T", "H", " ", "X", "-", "1">>,
     <<"A", "U", "T", "H", " ", "X", " ", "a", "+", "/", "=">>,
     <<"H", "E", "L", "O", " ", "x">>,
     <<"V", "R", "F", "Y", " ">>,
     <<"E", "X", "P", "N", " ">>}

SmtpHeads ==
    SmtpWords \cup SmtpCommands
        \cup {[i \in 1..Len(word) |-> to_ascii_lowercase(word[i])] :
                 word \in SmtpWords \cup SmtpCommands}

RECURSIVE SmtpTails(_)
SmtpTails(n) ==
    IF n = 0 THEN {<<>>}
    ELSE SmtpTails(n - 1)
             \cup {Append(t, c) : t \in SmtpTails(n - 1),
                                  c \in {" ", "x", "1", LF}}

SmtpLines == {head \o tail : head \in SmtpHeads, tail \in SmtpTails(MaxTail)}

\* A line that has reached the server and has not been parsed yet.
Received(s) == [line |-> s, parsed |-> None, known |-> None]

SmtpIdle == smtp = Received(<<>>)

\* The server parses the line it was handed and, as the known-command test
\* is a function of the line alone, applies that test to it as well.
ParseLine ==
    /\ smtp.parsed = None
    /\ smtp' = [smtp EXCEPT !.parsed = Some(from_str(smtp.line)),
                            !.known = Some(looks_like_known_command(smtp.line))]
    /\ UNCHANGED <<conn, client, stat>>

\* ------------------------------------------------------------ rollup age
\* now.duration_since(modified): Err when `modified` is later than `now`.
duration_since(now, modified) ==
    IF modified <= now THEN OkOf(now - modified) ELSE Err(modified - now)

\* Mutant of rollup_age: the distance between the two times, whichever is
\* the later.
rollup_age_distance(now, modified) ==
    IF modified = None THEN 0
    ELSE IF modified.some <= now THEN now - modified.some
    ELSE modified.some - now

\* md.modified().ok().and_then(|modified| now.duration_since(modified).ok())
\*     .unwrap_or(Duration::from_secs(0)); `modified` is None when the
\* platform has no modification time for the file.
rollup_age(now, modified) ==
    IF modified = None THEN 0
    ELSE IF IsErr(duration_since(now, modified.some)) THEN 0
    ELSE duration_since(now, modified.some).ok

\* The clock reading of list_rollups (seconds since the epoch) and the
\* modification times a rollup may have: none, one second ahead of the
\* clock, far ahead of it, and at each grace period behind it.
ClockNow == OLD_ROLLUP_GRACE_PERIOD + EXCESS_ROLLUP_GRACE_PERIOD

Mtimes ==
    {None, Some(ClockNow + 1), Some(ClockNow + OLD_ROLLUP_GRACE_PERIOD),
     Some(ClockNow - EXCESS_ROLLUP_GRACE_PERIOD),
     Some(ClockNow - OLD_ROLLUP_GRACE_PERIOD)}

NoStat == [now |-> 0, modified |-> <<>>]

StatIdle == stat = NoStat

\* One turn of the loop of list_rollups over a validly named entry whose
\* metadata could be read: a RollupInfo with the age of the file and no
\* flag is pushed.
StatRollup(uid, cid, modified) ==
    /\ phase = "build"
    /\ Len(input) < MaxRollups
    /\ input' = Append(input, RollupInfo(cid, rollup_age(stat.now, modified),
                                         RollupName(uid, cid)))
    /\ stat' = [stat EXCEPT !.modified = Append(@, modified)]
    /\ UNCHANGED <<rollups, phase>>
    /\ UNCHANGED <<evars, svars, fvars, conn, client, smtp>>

ProtoIdle == LoginIdle /\ ClientIdle /\ SmtpIdle /\ StatIdle

\* ------------------------------------------------------------------- Spec
ClassifyIdle == input = <<>> /\ rollups = <<>> /\ phase = "idle"

Init ==
    /\ log = <<>>
    /\ change = {}
    /\ rollupDir = {}
    /\ task = NoTask
    /\ sel = NoSelect
    /\ ClassifyIdle
    /\ sessions = [w \in Sessions |-> NewSession]
    /\ view = NoView
    /\ peer = NoTask
    /\ FetchIdle
    /\ ProtoIdle

SelectStep ==
    \E read_only \in BOOLEAN, io \in SelectErrors, read_ok \in BOOLEAN :
        Select(read_only, io, read_ok)

Next ==
    \/ (\E tx \in EngineTxs : Commit(tx)) /\ UNCHANGED <<cvars, svars, fvars, pvars>>
    \/ (\E k \in 1..Len(log) : WriteRollup(k)) /\ UNCHANGED <<cvars, svars, fvars, pvars>>
    \/ Tick(OLD_ROLLUP_GRACE_PERIOD) /\ UNCHANGED <<cvars, svars, fvars, pvars>>
    \/ SelectStep /\ UNCHANGED <<cvars, svars, fvars, pvars>>
    \/ SelectReturn /\ UNCHANGED <<cvars, svars, fvars, pvars>>
    \/ (\E ok \in BOOLEAN : TaskMessageGc(ok)) /\ UNCHANGED <<cvars, svars, fvars, pvars>>
    \/ (\E ok \in BOOLEAN : TaskChangeGc(ok)) /\ UNCHANGED <<cvars, svars, fvars, pvars>>
    \/ (\E ok \in BOOLEAN : TaskRemoveRollup(ok)) /\ UNCHANGED <<cvars, svars, fvars, pvars>>
    \/ TaskRemoveDone /\ UNCHANGED <<cvars, svars, fvars, pvars>>
    \/ TaskExit /\ UNCHANGED <<cvars, svars, fvars, pvars>>

Spec == Init /\ [][Next]_vars

\* --------------------------------------------------------------- SpecList
\* select on a rollup directory that is its input: any set of entries whose
\* names are decimal u64s, valid Modseqs or not.
ListAges == {0, OLD_ROLLUP_GRACE_PERIOD}

\* The state stored in a rollup named (uid, cid): uid messages, cid changes.
SnapshotState(uid, cid) ==
    [next_uid |-> uid + 1,
     messages |-> [u \in 1..uid |->
                     [flags |-> {}, last_modified |-> cid, expunged_at |-> 0]],
     flag_table |-> <<>>,
     cid |-> cid]

\* An entry named uid << 32 | cid is found in rollup/.
PutRollup(uid, cid, age) ==
    /\ Idle
    /\ Cardinality(rollupDir) < MaxDirEntries
    /\ ~HasFile(rollupDir, RollupName(uid, cid))
    /\ rollupDir' = rollupDir \cup {RollupFile(uid, cid, age, SnapshotState(uid, cid))}
    /\ UNCHANGED <<log, change, task, sel>>

ListNext ==
    \/ (\E uid \in 0..MaxNameUid, cid \in 1..MaxNameCid, age \in ListAges :
           PutRollup(uid, cid, age)) /\ UNCHANGED <<cvars, svars, fvars, pvars>>
    \/ Commit(TxAppend) /\ UNCHANGED <<cvars, svars, fvars, pvars>>
    \/ (\E read_ok \in BOOLEAN : Select(TRUE, "ok", read_ok)) /\ UNCHANGED <<cvars, svars, fvars, pvars>>
    \/ SelectReturn /\ UNCHANGED <<cvars, svars, fvars, pvars>>

SpecList == Init /\ [][ListNext]_vars

\* ----------------------------------------------------------- SpecDetached
\* The closure runs on the thread pool while select is still returning to
\* its caller: its steps are taken with the result of select in hand.
DetachedNext ==
    \/ Commit(TxAppend) /\ UNCHANGED <<cvars, svars, fvars, pvars>>
    \/ (\E k \in 1..Len(log) : WriteRollup(k)) /\ UNCHANGED <<cvars, svars, fvars, pvars>>
    \/ Tick(OLD_ROLLUP_GRACE_PERIOD) /\ UNCHANGED <<cvars, svars, fvars, pvars>>
    \/ (\E io \in {"ok", "uid_validity"} : Select(FALSE, io, TRUE)) /\ UNCHANGED <<cvars, svars, fvars, pvars>>
    \/ SelectReturn /\ UNCHANGED <<cvars, svars, fvars, pvars>>
    \/ (\E ok \in BOOLEAN : TaskMessageGcStep(ok)) /\ UNCHANGED <<cvars, svars, fvars, pvars>>
    \/ (\E ok \in BOOLEAN : TaskChangeGcStep(ok)) /\ UNCHANGED <<cvars, svars, fvars, pvars>>
    \/ (\E ok \in BOOLEAN : TaskRemoveRollupStep(ok)) /\ UNCHANGED <<cvars, svars, fvars, pvars>>
    \/ TaskRemoveDoneStep /\ UNCHANGED <<cvars, svars, fvars, pvars>>
    \/ TaskExitStep /\ UNCHANGED <<cvars, svars, fvars, pvars>>

SpecDetached == Init /\ [][DetachedNext]_vars

\* ------------------------------------------------------------- SpecReplay
\* Histories of every kind of transaction, rollups taken at their prefixes.
ReplayTxs == {TxAppend, TxStoreSeen(1), TxExpunge(1), TxDefineFlag("kw")}

ReplayNext ==
    \/ (\E tx \in ReplayTxs : Commit(tx)) /\ UNCHANGED <<cvars, svars, fvars, pvars>>
    \/ (\E k \in 1..Len(log) : WriteRollup(k)) /\ UNCHANGED <<cvars, svars, fvars, pvars>>
    \/ Select(TRUE, "ok", TRUE) /\ UNCHANGED <<cvars, svars, fvars, pvars>>
    \/ SelectReturn /\ UNCHANGED <<cvars, svars, fvars, pvars>>

SpecReplay == Init /\ [][ReplayNext]_vars

\* ------------------------------------------------------------ SpecSession
\* Sessions that commit by the writer's protocol and poll, in any
\* interleaving.
SessionNext ==
    \/ (\E w \in Sessions, tx \in SessionTxs : CommitScan(w, tx)) /\ UNCHANGED <<cvars, view, peer, fvars, pvars>>
    \/ (\E w \in Sessions : CommitRescan(w)) /\ UNCHANGED <<cvars, view, peer, fvars, pvars>>
    \/ (\E w \in Sessions : CommitCreate(w)) /\ UNCHANGED <<cvars, view, peer, fvars, pvars>>
    \/ (\E w \in Sessions : SessionPoll(w)) /\ UNCHANGED <<cvars, view, peer, fvars, pvars>>

SpecSession == Init /\ [][SessionNext]_vars

\* A writer that has started a commit keeps taking its steps.
SpecSessionFair ==
    /\ SpecSession
    /\ \A w \in Sessions :
          /\ WF_vars(CommitRescan(w) /\ UNCHANGED <<cvars, view, peer, fvars, pvars>>)
          /\ WF_vars(CommitCreate(w) /\ UNCHANGED <<cvars, view, peer, fvars, pvars>>)

\* --------------------------------------------------------------- SpecRace
\* Two processes select the mailbox read-write while rollups are written
\* and age: the task of each runs beside the listing and the task of the
\* other. The garbage collections of the store and of change/ succeed.
\* Most files rollup/ holds at a time, and most transactions committed.
MaxRaceRollups == 2
MaxRaceTx == 2

RaceNext ==
    \/ CommitWithin(TxAppend, MaxRaceTx) /\ UNCHANGED <<cvars, svars, fvars, pvars>>
    \/ (Cardinality(rollupDir) < MaxRaceRollups /\ \E k \in 1..Len(log) : WriteRollup(k))
          /\ UNCHANGED <<cvars, svars, fvars, pvars>>
    \/ Tick(OLD_ROLLUP_GRACE_PERIOD) /\ UNCHANGED <<cvars, svars, fvars, pvars>>
    \/ ReadDir /\ UNCHANGED <<cvars, svars, fvars, pvars>>
    \/ SelectListed(FALSE, "ok", TRUE) /\ UNCHANGED <<cvars, svars, fvars, pvars>>
    \/ SelectReturn /\ UNCHANGED <<cvars, svars, fvars, pvars>>
    \/ TaskMessageGcStep(TRUE) /\ UNCHANGED <<cvars, svars, fvars, pvars>>
    \/ TaskChangeGcStep(TRUE) /\ UNCHANGED <<cvars, svars, fvars, pvars>>
    \/ (\E ok \in BOOLEAN : TaskRemoveRollupStep(ok)) /\ UNCHANGED <<cvars, svars, fvars, pvars>>
    \/ TaskRemoveDoneStep /\ UNCHANGED <<cvars, svars, fvars, pvars>>
    \/ TaskExitStep /\ UNCHANGED <<cvars, svars, fvars, pvars>>
    \/ PeerSelect /\ UNCHANGED <<cvars, sessions, view, fvars, pvars>>
    \/ PeerMessageGc(TRUE) /\ UNCHANGED <<cvars, sessions, view, fvars, pvars>>
    \/ PeerChangeGc(TRUE) /\ UNCHANGED <<cvars, sessions, view, fvars, pvars>>
    \/ PeerRemoveRollup(TRUE) /\ UNCHANGED <<cvars, sessions, view, fvars, pvars>>
    \/ PeerRemoveDone /\ UNCHANGED <<cvars, sessions, view, fvars, pvars>>
    \/ PeerExit /\ UNCHANGED <<cvars, sessions, view, fvars, pvars>>

SpecRace == Init /\ [][RaceNext]_vars

\* --------------------------------------------------------------- SpecView
\* One caller selects the mailbox and works on its session while other
\* sessions commit; a transaction file may hold what does not decode.
ViewTxs == {TxAppend, TxStoreSeen(1), TxExpunge(1), TxExpunge(2)}

ViewNext ==
    \/ (\E tx \in ViewTxs \cup {TxCorrupt} : OtherCommit(tx)) /\ UNCHANGED <<cvars, fvars, pvars>>
    \/ (rollupDir = {} /\ \E k \in 1..Len(log) : WriteRollup(k))
          /\ UNCHANGED <<cvars, svars, fvars, pvars>>
    \/ (~view.open /\ \E read_only \in BOOLEAN, io \in {"ok", "poll"} :
            Select(read_only, io, TRUE)) /\ UNCHANGED <<cvars, svars, fvars, pvars>>
    \/ SelectReturn /\ UNCHANGED <<cvars, svars, fvars, pvars>>
    \/ ViewOpen /\ UNCHANGED <<cvars, peer, fvars, pvars>>
    \/ ViewPoll /\ UNCHANGED <<cvars, peer, fvars, pvars>>
    \/ (\E m \in SeenModseqs(log, view.state.cid) : ViewQresync(m))
          /\ UNCHANGED <<cvars, peer, fvars, pvars>>
    \/ (\E tx \in ViewTxs : ViewCommit(tx)) /\ UNCHANGED <<cvars, peer, fvars, pvars>>

\* The mailbox already holds two messages when the caller comes to it.
ViewInit ==
    /\ log = <<TxAppend, TxAppend>>
    /\ change = {1, 2}
    /\ rollupDir = {}
    /\ task = NoTask
    /\ sel = NoSelect
    /\ ClassifyIdle
    /\ sessions = [w \in Sessions |-> NewSession]
    /\ view = NoView
    /\ peer = NoTask
    /\ FetchIdle
    /\ ProtoIdle

SpecView == ViewInit /\ [][ViewNext]_vars

\* ----------------------------------------------------------- SpecClassify
ClassifyInit ==
    /\ input = <<>>
    /\ rollups = <<>>
    /\ phase = "build"
    /\ log = <<>>
    /\ change = {}
    /\ rollupDir = {}
    /\ task = NoTask
    /\ sel = NoSelect
    /\ sessions = [w \in Sessions |-> NewSession]
    /\ view = NoView
    /\ peer = NoTask
    /\ FetchIdle
    /\ ProtoIdle

\* The caller appends one more RollupInfo to the slice.
PushRollup ==
    /\ phase = "build"
    /\ Len(input) < MaxRollups
    /\ \E cid \in 1..MaxCid, age \in Ages :
          input' = Append(input, r(cid, age))
    /\ UNCHANGED <<rollups, phase>>
    /\ UNCHANGED <<evars, svars, fvars, pvars>>

\* classify_rollups(&mut rollups)
Classify ==
    /\ phase = "build"
    /\ rollups' = classify_rollups(input)
    /\ phase' = "done"
    /\ UNCHANGED input
    /\ UNCHANGED <<evars, svars, fvars, pvars>>

ClassifyNext == PushRollup \/ Classify

SpecClassify == ClassifyInit /\ [][ClassifyNext]_vars

\* -------------------------------------------------------- SpecInscrutable
\* select, with its background task, on a rollup directory that also holds
\* entries list_rollups cannot read a Modseq from: names with a zero half,
\* "tmp"-like names, a rollup name with a suffix; and one more spelling of a
\* valid name, with a leading '+'.
OddNames ==
    {<<<<Other>>, 0, 0>>,
     <<RollupName(1, 1) \o <<Other>>, 0, 0>>,
     <<<<Plus>> \o RollupName(1, 2), 1, 2>>}

\* An entry called `name` is found in rollup/; uid and cid are the halves of
\* the number `name` denotes (0 when it denotes none).
PutEntry(name, uid, cid, age) ==
    /\ Idle /\ task.pc = "none"
    /\ Cardinality(rollupDir) <= MaxDirEntries
    /\ ~HasFile(rollupDir, name)
    /\ rollupDir' = rollupDir \cup
           {[RollupFile(uid, cid, age, SnapshotState(uid, cid)) EXCEPT !.path = name]}
    /\ UNCHANGED <<log, change, task, sel>>

InscrutableNext ==
    \/ (\E uid \in 0..1, cid \in 0..MaxNameCid, age \in ListAges :
           PutEntry(RollupName(uid, cid), uid, cid, age))
           /\ UNCHANGED <<cvars, svars, fvars, pvars>>
    \/ (\E n \in OddNames, age \in ListAges : PutEntry(n[1], n[2], n[3], age))
           /\ UNCHANGED <<cvars, svars, fvars, pvars>>
    \/ (task.pc = "none" /\ Select(FALSE, "ok", TRUE))
           /\ UNCHANGED <<cvars, svars, fvars, pvars>>
    \/ SelectReturn /\ UNCHANGED <<cvars, svars, fvars, pvars>>
    \/ TaskMessageGc(TRUE) /\ UNCHANGED <<cvars, svars, fvars, pvars>>
    \/ TaskChangeGc(TRUE) /\ UNCHANGED <<cvars, svars, fvars, pvars>>
    \/ (\E ok \in BOOLEAN : TaskRemoveRollup(ok)) /\ UNCHANGED <<cvars, svars, fvars, pvars>>
    \/ TaskRemoveDone /\ UNCHANGED <<cvars, svars, fvars, pvars>>
    \/ TaskExit /\ UNCHANGED <<cvars, svars, fvars, pvars>>

SpecInscrutable == Init /\ [][InscrutableNext]_vars

\* -------------------------------------------------------------- SpecFetch
FetchInit ==
    /\ log = <<>>
    /\ change = {}
    /\ rollupDir = {}
    /\ task = NoTask
    /\ sel = NoSelect
    /\ ClassifyIdle
    /\ sessions = [w \in Sessions |-> NewSession]
    /\ view = NoView
    /\ peer = NoTask
    /\ FetchIdle
    /\ ProtoIdle

FetchNext ==
    \/ (\E kind \in FetcherKinds : AddFetcher(kind))
           /\ UNCHANGED <<cvars, evars, svars, pvars>>
    \/ (\E f \in Answers(multi[Len(multi)], calls + 1) : VisitEvent(f))
           /\ UNCHANGED <<cvars, evars, svars, pvars>>
    \/ (\E has \in SUBSET (1..Len(added)) : VisitLeafSection(has))
           /\ UNCHANGED <<cvars, evars, svars, pvars>>
    \/ (\E has \in SUBSET (1..Len(added)) : VisitStartPart(has))
           /\ UNCHANGED <<cvars, evars, svars, pvars>>
    \/ VisitEnd /\ UNCHANGED <<cvars, evars, svars, pvars>>
    \/ (\E f \in Answers(multi[Len(multi)], calls + 1) : VisitChildResult(f))
           /\ UNCHANGED <<cvars, evars, svars, pvars>>

SpecFetch == FetchInit /\ [][FetchNext]_vars

\* ------------------------------------------------ classify_rollups claims
Unmarked(x) == ~x.delete_rollup /\ ~x.delete_transactions

OldRule(s, i) == i < Len(s) /\ s[i].age >= OLD_ROLLUP_GRACE_PERIOD

ExcessRule(s, i) ==
    /\ i <= Len(s) - EXCESS_ROLLUP_THRESHOLD
    /\ s[i].age >= EXCESS_ROLLUP_GRACE_PERIOD

\* C1: after classify_rollups on a non-empty slice the last element has the
\* greatest CID of the slice and neither delete_rollup nor
\* delete_transactions, whatever its age and the number of rollups.
C1_LatestNeverMarked ==
    (phase = "done" /\ input # <<>>) =>
        /\ Len(rollups) = Len(input)
        /\ \A i \in 1..Len(input) : input[i].cid <= rollups[Len(rollups)].cid
        /\ Unmarked(rollups[Len(rollups)])

\* The latest rollup is past the old grace period, and an older one is marked.
C1_Witness ==
    /\ phase = "done"
    /\ Len(rollups) >= 2
    /\ rollups[Len(rollups)].age >= OLD_ROLLUP_GRACE_PERIOD
    /\ rollups[1].delete_transactions

\* C2: every rollup but the last whose age is at least
\* OLD_ROLLUP_GRACE_PERIOD has delete_rollup and delete_transactions set.
C2_OldMarkedBoth ==
    phase = "done" =>
        \A i \in 1..Len(rollups) :
            OldRule(rollups, i) =>
                rollups[i].delete_rollup /\ rollups[i].delete_transactions

\* A non-latest rollup exactly OLD_ROLLUP_GRACE_PERIOD old was classified.
C2_Witness ==
    /\ phase = "done"
    /\ \E i \in 1..Len(rollups) :
          /\ i < Len(rollups)
          /\ rollups[i].age = OLD_ROLLUP_GRACE_PERIOD
          /\ rollups[i].delete_transactions

\* C3: with more than EXCESS_ROLLUP_THRESHOLD rollups, each of the
\* len - EXCESS_ROLLUP_THRESHOLD first (oldest) rollups whose age is at
\* least EXCESS_ROLLUP_GRACE_PERIOD has delete_rollup set.
C3_ExcessMarked ==
    (phase = "done" /\ Len(rollups) > EXCESS_ROLLUP_THRESHOLD) =>
        \A i \in 1..Len(rollups) :
            ExcessRule(rollups, i) => rollups[i].delete_rollup

\* An excess rollup between the two grace periods lost only its file.
C3_Witness ==
    /\ phase = "done"
    /\ Len(rollups) > EXCESS_ROLLUP_THRESHOLD
    /\ \E i \in 1..(Len(rollups) - EXCESS_ROLLUP_THRESHOLD) :
          /\ rollups[i].age = EXCESS_ROLLUP_GRACE_PERIOD
          /\ rollups[i].delete_rollup
          /\ ~rollups[i].delete_transactions

\* C4: nothing is marked beyond the two rules: delete_transactions only by
\* the old rule, delete_rollup only by the old rule or the excess rule; a
\* rollup younger than EXCESS_ROLLUP_GRACE_PERIOD and any of the
\* EXCESS_ROLLUP_THRESHOLD last rollups younger than
\* OLD_ROLLUP_GRACE_PERIOD stay unmarked.
C4_NothingElseMarked ==
    phase = "done" =>
        \A i \in 1..Len(rollups) :
            /\ rollups[i].delete_transactions => OldRule(rollups, i)
            /\ rollups[i].delete_rollup =>
                  OldRule(rollups, i) \/ ExcessRule(rollups, i)
            /\ rollups[i].age < EXCESS_ROLLUP_GRACE_PERIOD =>
                  Unmarked(rollups[i])
            /\ (/\ i > Len(rollups) - EXCESS_ROLLUP_THRESHOLD
                /\ rollups[i].age < OLD_ROLLUP_GRACE_PERIOD) =>
                  Unmarked(rollups[i])

\* More than the threshold: a young excess rollup and a recent rollup past
\* the excess grace period both stay unmarked, next to a marked one.
C4_Witness ==
    /\ phase = "done"
    /\ Len(rollups) > EXCESS_ROLLUP_THRESHOLD
    /\ rollups[1].age < EXCESS_ROLLUP_GRACE_PERIOD
    /\ Unmarked(rollups[1])
    /\ \E i \in 2..(Len(rollups) - 1) :
          /\ rollups[i].age = EXCESS_ROLLUP_GRACE_PERIOD
          /\ Unmarked(rollups[i])
    /\ \E i \in 2..(Len(rollups) - 1) : rollups[i].delete_rollup

\* C5: whatever the order of the input, the slice is left sorted ascending
\* by CID, so that the last element is the one to load from.
C5_SortedByCid ==
    phase = "done" =>
        \A i, j \in 1..Len(rollups) :
            i < j => rollups[i].cid <= rollups[j].cid

\* The input was handed over in descending CID order.
C5_Witness ==
    /\ phase = "done"
    /\ Len(input) >= 3
    /\ \A i \in 1..(Len(input) - 1) : input[i].cid >= input[i + 1].cid
    /\ input[1].cid > input[Len(input)].cid

\* ------------------------------------------------------------ select claims
\* A call of select got past list_rollups and its result is being returned.
Observed == sel.status # "none" /\ sel.error # "list_rollups"

\* The entries of rollup/ whose names are Modseqs.
ValidFiles == {f \in rollupDir : f.uid >= 1 /\ f.cid >= 1}

\* The file select read, or tried to read, its starting state from.
LoadedFile == FileAt(rollupDir, sel.loaded)

\* g does not come after f in the order of (cid, age, path).
CidAgePathLeq(g, f) ==
    \/ g.cid < f.cid
    \/ g.cid = f.cid /\ g.age < f.age
    \/ g.cid = f.cid /\ g.age = f.age /\ PathCmp(g.path, f.path) <= 0

\* The CIDs of change/ that poll() replays on a state whose cid is c.
Newer(c) == {x \in change : x > c}

C7_UnreadableStartsEmpty ==
    (Observed /\ (sel.read_failed \/ ValidFiles = {})) =>
        /\ sel.start = EmptyState
        /\ ValidFiles = {} => sel.loaded = <<>> /\ ~sel.read_failed
        /\ sel.error = "ok" =>
              /\ sel.status = "ok"
              /\ sel.state = Replay(EmptyState, change, log, 0, Len(log))
              /\ Len(sel.state.messages) = Cardinality(change)

\* The latest of several rollups was unreadable and select succeeded from
\* the empty state, replaying transactions.
C7_Witness ==
    /\ sel.status = "ok"
    /\ sel.read_failed
    /\ sel.listed >= 2
    /\ \E g \in ValidFiles : g.path # sel.loaded /\ g.state # EmptyState
    /\ change # {}
    /\ sel.state # EmptyState

\* C8: for every history and every rollup taken at a prefix of it, loading
\* the rollup and replaying the transactions with greater cid gives the
\* state of replaying the whole history from empty; so does select.
C8_ReplayEquivalence ==
    /\ \A f \in rollupDir :
          /\ f.state = StateAt(log, f.cid)
          /\ select_poll(f.state, change, log) = StateAt(log, Len(log))
    /\ (sel.status = "ok" /\ sel.loaded # <<>>) =>
          /\ sel.start = StateAt(log, LoadedFile.cid)
          /\ sel.state = StateAt(log, Len(log))

\* select loaded a rollup of a proper prefix and replayed a flag change or
\* an expunge that took effect.
C8_Witness ==
    /\ sel.status = "ok"
    /\ sel.loaded # <<>>
    /\ LoadedFile.cid < Len(log)
    /\ \E c \in (LoadedFile.cid + 1)..Len(log) :
          /\ log[c].kind # "Append"
          /\ StateAt(log, c).messages # StateAt(log, c - 1).messages

\* A rollup file disappears in this step.
RemovesRollup == \E f \in rollupDir : ~HasFile(rollupDir', FilePath(f))

\* A transaction file disappears in this step.
CollectsChange == \E c \in change : c \notin change'

\* C9: a read-only select spawns no task, no task ever belongs to a
\* read-only mailbox, and rollups and transactions only disappear in a step
\* of a task spawned by a read-write select.
C9_ReadOnlyNeverCollects ==
    /\ [](/\ (sel.status # "none" /\ sel.read_only) => ~sel.spawned
          /\ task.pc # "none" => ~task.read_only)
    /\ [][(RemovesRollup \/ CollectsChange) =>
              (task.pc \in {"change_gc", "remove"} /\ ~task.read_only)]_vars

\* A read-only select returned Ok with a rollup due for deletion listed and
\* no task in existence.
C9_Witness ==
    /\ sel.status = "ok"
    /\ sel.read_only
    /\ ~sel.spawned
    /\ task = NoTask
    /\ \E f \in rollupDir :
          /\ f.age >= OLD_ROLLUP_GRACE_PERIOD
          /\ FilePath(f) # sel.loaded

IsMarked(x) == x.delete_rollup

IsRemove(e) == e.op = "remove"

\* The paths of the rollups of rs marked delete_rollup, in order.
MarkedPaths(rs) ==
    LET m == SelectSeq(rs, IsMarked) IN [i \in 1..Len(m) |-> m[i].path]

\* The paths of the removals among the events ev, in order.
RemovedPaths(ev) ==
    LET m == SelectSeq(ev, IsRemove) IN [i \in 1..Len(m) |-> m[i].path]

IsPrefix(a, b) == Len(a) <= Len(b) /\ a = SubSeq(b, 1, Len(a))

\* C10: the task's steps are message GC first; nothing more if it failed;
\* then change GC with the computed floor; removals only after change GC
\* succeeded, of the marked rollups in order, each attempted whatever the
\* outcome of the one before; a rollup whose removal failed is still there.
C10_TaskOrder ==
    LET ev == task.events
        rs == task.rollups
    IN  task.pc # "none" =>
          /\ task.pc = "message_gc" <=> ev = <<>>
          /\ \A i \in 1..Len(ev) :
                /\ ev[i].op = "message_gc" <=> i = 1
                /\ ev[i].op = "change_gc" <=> i = 2
                /\ ev[i].op = "remove" <=> i >= 3
          /\ (Len(ev) >= 1 /\ ev[1].res = "err") => Len(ev) = 1 /\ task.pc = "done"
          /\ (Len(ev) = 1 /\ ev[1].res = "ok") => task.pc = "change_gc"
          /\ Len(ev) >= 2 =>
                /\ ev[1].res = "ok"
                /\ \A j \in 1..Len(rs) :
                      rs[j].delete_transactions => rs[j].cid <= ev[2].floor
                /\ \/ ev[2].floor = 0
                   \/ \E j \in 1..Len(rs) :
                         rs[j].delete_transactions /\ rs[j].cid = ev[2].floor
          /\ (Len(ev) >= 2 /\ ev[2].res = "err") => Len(ev) = 2 /\ task.pc = "done"
          /\ (Len(ev) >= 2 /\ ev[2].res = "ok") =>
                /\ IsPrefix(RemovedPaths(ev), MarkedPaths(rs))
                /\ task.pc = "done" => RemovedPaths(ev) = MarkedPaths(rs)
                /\ task.pc \in {"remove", "done"}
          /\ \A i \in 1..Len(ev) :
                (ev[i].op = "remove" /\ ev[i].res = "err") =>
                    HasFile(rollupDir, ev[i].path)

\* A finished task whose first removal failed and whose next one succeeded.
C10_Witness ==
    /\ task.pc = "done"
    /\ \E i \in 1..Len(task.events) :
          /\ task.events[i].op = "remove"
          /\ task.events[i].res = "err"
          /\ HasFile(rollupDir, task.events[i].path)
          /\ \E j \in (i + 1)..Len(task.events) :
                /\ task.events[j].op = "remove"
                /\ task.events[j].res = "ok"

\* --------------------------------------------------- garbage-collection claims
\* The CIDs of the rollups the task holds that are marked delete_transactions.
MarkedCids == {task.rollups[j].cid :
                  j \in {k \in 1..Len(task.rollups) :
                            task.rollups[k].delete_transactions}}

\* The task has called change_scheme().gc.
ChangeGcCalled == task.pc # "none" /\ Len(task.events) >= 2

\* C11: the floor passed to transaction GC is the greatest CID of the
\* non-latest rollups marked delete_transactions, 0 when none is marked, and
\* with floor 0 the GC step removes no transaction.
C11_FloorIsMaxMarkedCid ==
    /\ [](ChangeGcCalled =>
            /\ \A c \in MarkedCids : c <= task.events[2].floor
            /\ MarkedCids # {} => task.events[2].floor \in MarkedCids
            /\ MarkedCids = {} => task.events[2].floor = 0)
    /\ [][(task.pc = "change_gc" /\ task' # task /\ MarkedCids = {})
              => change' = change]_vars

\* Transaction GC ran with two rollups of different CIDs marked.
C11_Witness ==
    /\ ChangeGcCalled
    /\ Cardinality(MarkedCids) >= 2
    /\ task.events[2].floor = 2
    /\ task.events[2].res = "ok"

\* C12: the floor of the message GC call is expunge_before_cid, the value
\* the same task passes to transaction GC.
C12_MessageGcFloorIsExpungeBeforeCid ==
    ChangeGcCalled => task.events[1].floor = task.events[2].floor

\* The task's call of transaction GC returns Ok in this step.
ChangeGcSucceeds ==
    /\ task.pc = "change_gc"
    /\ task'.pc = "remove"

\* C13: a successful transaction GC with floor X leaves in change/ exactly
\* the transactions with cid > X that were there before it, and while the
\* task lives no transaction with cid <= X is in change/ again.
C13_ChangeGcEffect ==
    /\ [][ChangeGcSucceeds =>
            LET X == task'.events[2].floor
            IN  /\ \A c \in change' : c > X
                /\ \A c \in change : c > X => c \in change'
                /\ change' \subseteq change]_vars
    /\ []((ChangeGcCalled /\ task.events[2].res = "ok") =>
            \A c \in change : c > task.events[2].floor)

\* A successful GC with floor 1 dropped transaction 1 and kept a later one.
C13_Witness ==
    /\ ChangeGcCalled
    /\ task.events[2].res = "ok"
    /\ task.events[2].floor = 1
    /\ Len(log) >= 2
    /\ change = 2..Len(log)

\* The task takes a step.
TaskSteps == task.pc # "none" /\ task' # task

\* C14: no step of the background task, failed or not, changes what select
\* returns: a select that met no I/O error of its own returns Ok with the
\* SelectResponse of its polled state whatever its task has done meanwhile.
C14_TaskErrorsNotSurfaced ==
    /\ [][TaskSteps => sel' = sel]_vars
    /\ []((sel.status # "none" /\ sel.spawned /\ sel.error = "ok") =>
            /\ sel.status = "ok"
            /\ sel.response = SelectResponse(sel.state, FALSE))

\* select is returning Ok while its task has failed at message GC, or at
\* transaction GC, or at removing a rollup.
C14_Witness ==
    /\ sel.status = "ok"
    /\ sel.spawned
    /\ task.pc = "done"
    /\ \E i \in 1..Len(task.events) : task.events[i].res = "err"
    /\ task.rollups # <<>>

\* ------------------------------------------------------------ session claims
\* The commits session w has completed, as indices into its record of them.
Commits(w) == 1..Len(sessions[w].done)

\* The sessions and indices of the completed commits that got CID c.
HoldersOf(c) ==
    {p \in {<<w, i>> : w \in Sessions, i \in 1..MaxCommits} :
        /\ p[2] \in Commits(p[1])
        /\ sessions[p[1]].done[p[2]][1] = c}

\* C15: every file of change/ is the transaction of exactly one completed
\* commit, so the CIDs of the commits are pairwise distinct and each
\* writer's transaction is listed once; a writer leaves its create without
\* the file only when the name exists already, and its next CID is greater;
\* every commit that was started completes.
C15_CommitRace ==
    /\ [](/\ change = 1..Len(log)
          /\ \A c \in change : Cardinality(HoldersOf(c)) = 1
          /\ \A w \in Sessions : \A i \in Commits(w) :
                /\ sessions[w].done[i][1] \in change
                /\ log[sessions[w].done[i][1]] = sessions[w].done[i][2])
    /\ [][\A w \in Sessions :
            /\ (sessions[w].pc = "create" /\ sessions'[w].pc = "scan") =>
                  /\ sessions[w].cid \in change
                  /\ UNCHANGED <<log, change>>
            /\ (sessions[w].pc = "scan" /\ sessions'[w].pc = "create") =>
                  sessions'[w].cid > sessions[w].failed]_vars
    /\ \A w \in Sessions :
          [](sessions[w].pc # "idle" => <>(sessions[w].pc = "idle"))

\* Both sessions committed; one of them lost the race for the CID the other
\* got and committed under a greater one.
C15_Witness ==
    \E w \in Sessions, v \in Sessions :
        /\ w # v
        /\ InFlight = {}
        /\ sessions[w].failed > 0
        /\ Len(sessions[w].done) = 1
        /\ Len(sessions[v].done) = 1
        /\ sessions[v].done[1][1] = sessions[w].failed
        /\ sessions[w].done[1][1] > sessions[w].failed

\* a is at most b in the order of Modseqs, None (no change applied to any
\* message yet) being the least.
ModseqLeq(a, b) == a = None \/ (b # None /\ ~ModseqLess(b, a))

\* The state of the mailbox: every committed transaction applied.
Mailbox == StateAt(log, Len(log))

\* C16: no step, a commit by any writer or a poll by any session, takes the
\* max_modseq of the mailbox or of a session's state down.
C16_MaxModseqMonotonic ==
    [][/\ ModseqLeq(max_modseq(Mailbox), max_modseq(Mailbox'))
       /\ \A w \in Sessions :
             ModseqLeq(max_modseq(sessions[w].state),
                       max_modseq(sessions'[w].state))]_vars

\* A session has polled the commits of both sessions, among them one that
\* added no message.
C16_Witness ==
    \E w \in Sessions, v \in Sessions :
        /\ w # v
        /\ Len(sessions[w].done) = 1
        /\ Len(sessions[v].done) = 1
        /\ sessions[w].state.cid = 2
        /\ sessions[w].state.next_uid = 2
        /\ sessions[w].state = Mailbox

\* ------------------------------------------------------ materialiser claims
\* The UIDs that have an entry in the state, expunged ones included.
Uids(st) == DOMAIN st.messages

\* The states the mailbox has gone through, as replayed, stored in rollups
\* and returned by select.
PrefixStates == {StateAt(log, k) : k \in 0..Len(log)}

KnownStates ==
    PrefixStates \cup {f.state : f \in rollupDir} \cup {sel.start, sel.state}

\* C17: in every state every UID with an entry, expunged or not, is below
\* next_uid; applying a transaction never lowers next_uid, keeps every
\* entry, and gives a new entry the UID that next_uid was.
C17_UidsBelowNextUid ==
    /\ \A st \in KnownStates : \A u \in Uids(st) : u < st.next_uid
    /\ \A k \in 1..Len(log) :
          LET a == StateAt(log, k - 1)
              b == StateAt(log, k)
          IN  /\ a.next_uid <= b.next_uid
              /\ Uids(a) \subseteq Uids(b)
              /\ \A u \in Uids(b) \ Uids(a) :
                    /\ u = a.next_uid
                    /\ b.next_uid = u + 1
                    /\ log[k].kind = "Append"

\* select returned a state in which UID 1 is expunged and UID 2 was
\* assigned afterwards.
C17_Witness ==
    /\ sel.status = "ok"
    /\ sel.state.next_uid = 3
    /\ sel.state.messages[1].expunged_at # 0
    /\ sel.state.messages[2].last_modified > sel.state.messages[1].expunged_at

PollStep(w) ==
    /\ sessions[w].pc = "idle"
    /\ sessions'[w].pc = "idle"
    /\ sessions'[w] # sessions[w]
    /\ sessions'[w].fresh

\* C19: a poll() right after a poll() of the same session, no writer having
\* committed in between, returns the empty delta and leaves the session's
\* state as it was.
C19_PollIdempotent ==
    /\ [](\A w \in Sessions : sessions[w].again => sessions[w].delta = EmptyDelta)
    /\ [][\A w \in Sessions :
            (PollStep(w) /\ sessions[w].fresh) =>
                /\ sessions'[w].again
                /\ sessions'[w].delta = EmptyDelta
                /\ sessions'[w].state = sessions[w].state]_vars

\* A session polled twice in a row after a commit that added a message.
C19_Witness ==
    \E w \in Sessions :
        /\ sessions[w].again
        /\ sessions[w].state = Mailbox
        /\ sessions[w].state.next_uid > 1
        /\ sessions[w].delta = EmptyDelta

\* The CID of the last commit session w completed.
LastCommitted(w) == sessions[w].done[Len(sessions[w].done)][1]

\* C20: when a session that has committed polls, its state afterwards has
\* the committed transaction applied (it is the replay of change/ up to a
\* CID at least that of the commit) and its max_modseq is not below the
\* Modseq the commit returned.
C20_PollObservesOwnCommit ==
    [][\A w \in Sessions :
         (PollStep(w) /\ sessions[w].done # <<>>) =>
            LET st == sessions'[w].state
            IN  /\ st.cid >= LastCommitted(w)
                /\ st = StateAt(log, st.cid)
                /\ sessions[w].ret.cid = LastCommitted(w)
                /\ max_modseq(st) # None =>
                      ~ModseqLess(max_modseq(st), sessions[w].ret)]_vars

\* A session appended a message, polled, and has the message, while the
\* other session had committed before it.
C20_Witness ==
    \E w \in Sessions :
        /\ sessions[w].done # <<>>
        /\ sessions[w].fresh
        /\ ~sessions[w].again
        /\ sessions[w].done[Len(sessions[w].done)][2].kind = "Append"
        /\ LastCommitted(w) = 2
        /\ sessions[w].state.cid = 2
        /\ sessions[w].ret = max_modseq(sessions[w].state)

\* ------------------------------------------------------ session view claims
\* The CIDs of the interval (m, st]: after the client's Modseq, up to the
\* one the session's state is at.
Interval(m, st) == (m.cid + 1)..st.cid

\* The UIDs an Expunge of the interval took out of the mailbox, by the log.
ExpungedBetween(m, st) ==
    {u \in 1..Len(st.messages) :
        \E c \in Interval(m, st) :
            /\ log[c].kind = "Expunge"
            /\ log[c].uid = u
            /\ u <= Len(StateAt(log, c - 1).messages)
            /\ StateAt(log, c - 1).messages[u].expunged_at = 0}

\* The UIDs whose flags a transaction of the interval set or changed, by the
\* log: a StoreFlags on a UID the mailbox had, or the Append of the UID.
ChangedBetween(m, st) ==
    {u \in 1..Len(st.messages) :
        \E c \in Interval(m, st) :
            \/ /\ log[c].kind = "StoreFlags"
               /\ log[c].uid = u
               /\ u <= Len(StateAt(log, c - 1).messages)
            \/ /\ log[c].kind = "Append"
               /\ u = StateAt(log, c - 1).next_uid}

\* The Modseq of the mailbox after its first k transactions, by the log.
ModseqByLog(k) ==
    Modseq(Cardinality({c \in 1..k : log[c].kind = "Append"}), k)

CorruptCids == {c \in change : log[c] = TxCorrupt}

\* A call of select has got past list_rollups and is returning.
SelectPolled == sel.status # "none" /\ sel.error # "list_rollups"

\* C22: replay stops at a transaction that does not decode, so that no
\* state of a session or of a returning select has a transaction of that or
\* a greater CID applied, and a poll() that returns the error has applied
\* the transactions before it; and a select whose poll() failed, on an I/O
\* error or on such a transaction, returns the error and no response.
C22_DecodeErrorAbortsReplay ==
    /\ \A c \in CorruptCids :
          /\ view.state.cid < c
          /\ SelectPolled => sel.state.cid < c
    /\ (SelectPolled /\ (sel.error = "poll" \/ poll_error(sel.start, change, log)))
          => /\ sel.status = "err"
             /\ sel.error = "poll"
             /\ sel.response = None
             /\ ~sel.spawned
    /\ (view.last.op = "poll" /\ view.last.status = "err")
          => /\ CorruptCids # {}
             /\ view.state.cid = Max({c \in change \cup {0} : c < Min(CorruptCids)})

C22_Witness ==
    /\ sel.status = "err"
    /\ sel.error = "poll"
    /\ \E c \in CorruptCids : c < Len(log) /\ c > sel.start.cid /\ (c + 1) \in change

\* The caller's session has just returned from a commit.
CommitReturned == view'.last.op = "commit" /\ view' # view

\* C23: a mutation submitted through a read-only session fails with
\* MailboxReadOnly, writes no transaction and leaves the session's state as
\* it was; the read_only bit of the response of select is the one the
\* mailbox was selected with.
C23_ReadOnlyRefusesMutation ==
    /\ [](sel.status = "ok" => sel.response.read_only = sel.read_only)
    /\ [][(view.read_only /\ CommitReturned) =>
             /\ view'.last.status = "err"
             /\ view'.last.error = "MailboxReadOnly"
             /\ log' = log
             /\ change' = change
             /\ view'.state = view.state]_vars

C23_Witness ==
    /\ view.open
    /\ view.read_only
    /\ CorruptCids = {}
    /\ view.last.op = "commit"
    /\ view.last.error = "MailboxReadOnly"
    /\ LiveUids(view.state) # {}

\* The caller's session has just returned Ok from a poll().
PollReturned ==
    view'.last.op = "poll" /\ view'.last.status = "ok" /\ view' # view

\* The sequence number a client of the state gives the UID: its rank among
\* the non-expunged UIDs.
Rank(st, u) == Cardinality({v \in LiveUids(st) : v <= u})

\* C25: the EXPUNGE notifications of a poll are the sequence numbers, in the
\* state before the poll, of the messages it found expunged, each once, the
\* greatest first; one expunged message at sequence number k gives the
\* single notification EXPUNGE k.
C25_ExpungeOrder ==
    [][PollReturned =>
         LET old  == view.state
             gone == LiveUids(old) \ LiveUids(view'.state)
             n    == view'.last.notifications
         IN  /\ Len(n) = Cardinality(gone)
             /\ {n[i] : i \in 1..Len(n)} = {Rank(old, u) : u \in gone}
             /\ \A i \in 1..Len(n), j \in 1..Len(n) : i < j => n[i] > n[j]
             /\ \A u \in gone : gone = {u} => n = <<Rank(old, u)>>]_vars

C25_Witness ==
    /\ view.last.op = "poll"
    /\ view.last.status = "ok"
    /\ view.last.notifications = <<2, 1>>

\* The UID half of the name of the rollup file select loaded, if it loaded
\* one.
LoadedUid ==
    IF sel.loaded = <<>> \/ sel.read_failed THEN None
    ELSE Some(FileAt(rollupDir, sel.loaded).uid)

\* The UIDs of the session's state that are above its recency frontier.
AboveFrontier ==
    {u \in 1..Len(view.state.messages) : is_recent(view.recency_frontier, u)}

\* C26 as stated: the recency frontier select sets is the UID half of the
\* max_modseq the mailbox has at select time.
C26_Original ==
    sel.status = "ok" => sel.recency_frontier = recency_frontier(sel.state)

\* C26: the recency frontier select sets is the UID half of the max_modseq of
\* the state loaded from the latest rollup (None if none was loaded), taken
\* before poll() replays the change log; each message of the session above
\* it has been marked \Recent by exactly one poll, and none at or below it.
C26_RecencyFrontier ==
    /\ SelectPolled => sel.recency_frontier = LoadedUid
    /\ view.open =>
          /\ {view.marked[i] : i \in 1..Len(view.marked)} = AboveFrontier
          /\ Len(view.marked) = Cardinality(AboveFrontier)
          /\ view.last.op = "poll" =>
                \A u \in view.last.recent :
                   \E i \in 1..Len(view.marked) :
                      /\ view.marked[i] = u
                      /\ i > Len(view.marked) - Cardinality(view.last.recent)

C26_Witness ==
    /\ view.open
    /\ view.recency_frontier = Some(2)
    /\ view.marked = <<3>>
    /\ view.last.op = "poll"
    /\ view.last.recent = {}
    /\ view.last.changed # {}

\* ------------------------------------------------------------- race claims
\* The task t has just gone through one iteration of its removal loop.
Removed(t, u) ==
    /\ Len(u.events) = Len(t.events) + 1
    /\ u.events[Len(u.events)].op = "remove"

\* What that iteration owes to a file that was already gone: nothing but
\* the next iteration.
LostRaceIgnored(t, u) ==
    LET e == u.events[Len(u.events)]
    IN  /\ ~HasFile(rollupDir, e.path) =>
              /\ e.res = "not_found"
              /\ rollupDir' = rollupDir
              /\ u.pc = "remove"
        /\ e.res = "err" => HasFile(rollupDir, e.path)

\* The entries of the read_dir of the select in progress whose file is
\* still there.
StillThere == {path \in sel.entries : HasFile(rollupDir, path)}

\* C27: an iteration of the removal loop of either process that finds its
\* file already gone (removed by the other process, or gone since the
\* listing) ends without an error and without touching the directory, and
\* the loop goes on; a list_rollups some of whose entries vanished after
\* read_dir returns Ok with the entries that are left, and select loads the
\* latest of them.
C27_LostRacesIgnored ==
    [][/\ Removed(task, task') => LostRaceIgnored(task, task')
       /\ Removed(peer, peer') => LostRaceIgnored(peer, peer')
       /\ (sel.status = "listing" /\ sel'.status # "listing") =>
             /\ sel'.status = "ok"
             /\ sel'.listed = Cardinality(StillThere)
             /\ StillThere # {} => sel'.loaded \in StillThere
             /\ \A i \in 1..Len(task'.rollups) :
                    task'.rollups[i].path \in StillThere]_vars

C27_Witness ==
    \E i \in 1..Len(task.events), j \in 1..Len(peer.events) :
        /\ task.events[i].op = "remove"
        /\ peer.events[j].op = "remove"
        /\ task.events[i].path = peer.events[j].path
        /\ task.events[i].res = "not_found"
        /\ peer.events[j].res = "ok"
        /\ task.pc = "done"
        /\ sel.status = "ok"

\* A listing that lost an entry between read_dir and metadata().
C27_VanishedWitness ==
    /\ sel.status = "ok"
    /\ sel.listed >= 1
    /\ sel.listed < Cardinality(sel.entries)


\* ------------------------------------------------------ MultiFetcher claims
Returned == output # None /\ output # Panic

\* C28: the vector a MultiFetcher returns is parallel to the fetchers added
\* to it: it has one element per added fetcher, and element i is the item
\* produced by the i-th added fetcher itself (not by a fetcher it started for
\* a part), in whatever order the fetchers finished.
C28_ResultsParallel ==
    Returned =>
        /\ Len(output.some) = Len(added)
        /\ \A i \in 1..Len(added) :
               /\ output.some[i].by = added[i]
               /\ output.some[i].depth = 0

\* Three fetchers returned, and they finished in an order that is neither
\* the order they were added in nor its reverse.
C28_Witness ==
    /\ Returned
    /\ Len(added) = 3
    /\ output.some[2].at < output.some[3].at
    /\ output.some[3].at < output.some[1].at


\* ----------------------------------------------------- list_rollups claims
\* The entries whose name is not a decimal u64 that Modseq::of accepts: the
\* name has a character that is no digit, or a half of its number is zero.
Inscrutable ==
    {f \in rollupDir :
        \/ f.path # RollupName(f.uid, f.cid) /\ f.path # <<Plus>> \o RollupName(f.uid, f.cid)
        \/ f.uid = 0
        \/ f.cid = 0}

InscrutablePaths == {FilePath(f) : f \in Inscrutable}

C30_TransactionsImplyRollup ==
    phase = "done" =>
        \A i \in 1..Len(rollups) :
            rollups[i].delete_transactions => rollups[i].delete_rollup

\* classify_rollups has marked one rollup together with its transactions and
\* another, under the excess rule, without them.
C30_Witness ==
    /\ phase = "done"
    /\ \E i \in 1..Len(rollups) : rollups[i].delete_transactions
    /\ \E i \in 1..Len(rollups) :
           rollups[i].delete_rollup /\ ~rollups[i].delete_transactions

\* ------------------------------------------------ classify_rollups frame
Triple(x) == <<x.cid, x.age, x.path>>

Count(s, t) == Cardinality({i \in 1..Len(s) : Triple(s[i]) = t})

\* C31: classify_rollups only reorders the slice and sets flags: every
\* (cid, age, path) triple occurs as often after the call as before it, the
\* length is the same, and a flag the first loop has set is still set when
\* the function returns (the slice comes in with no flag set).
C31_OnlyReordersAndMarks ==
    phase = "done" =>
        /\ Len(rollups) = Len(input)
        /\ \A i \in 1..Len(input) :
               Count(rollups, Triple(input[i])) = Count(input, Triple(input[i]))
        /\ \A i \in 1..Len(input) :
               ~input[i].delete_rollup /\ ~input[i].delete_transactions
        /\ input # <<>> =>
               \A i \in 1..Len(rollups) :
                   LET first == MarkOld(sort_unstable(input))[i]
                   IN  /\ first.delete_rollup => rollups[i].delete_rollup
                       /\ first.delete_transactions => rollups[i].delete_transactions

\* A slice with the same rollup twice came back in another order, with a
\* rollup the first loop marked among the ones the excess loop went over.
C31_Witness ==
    /\ phase = "done"
    /\ rollups # input
    /\ Len(input) > EXCESS_ROLLUP_THRESHOLD
    /\ \E i, j \in 1..Len(input) : i # j /\ input[i] = input[j]
    /\ rollups[1].delete_transactions
    /\ rollups[1].age >= EXCESS_ROLLUP_GRACE_PERIOD

\* ------------------------------------------------------- GC floor claims
\* select spawns its background task in this step.
Spawns == task.pc = "none" /\ task'.pc = "message_gc"

\* The rollup select would load from the directory as it is now.
LatestNow == pop(list_rollups(rollupDir))[1]

\* C32: the floor of transaction GC a select hands to its task is at most
\* the CID of the rollup that select loaded; the task removes no transaction
\* above its floor; and the rollup a select loads, replayed over the
\* transactions still in change/, gives the state of the whole history.
C32_FloorAtMostLatest ==
    /\ [][/\ Spawns =>
                IF sel'.loaded = <<>>
                THEN expunge_before_cid(task'.rollups) = 0
                ELSE expunge_before_cid(task'.rollups)
                         <= FileAt(rollupDir, sel'.loaded).cid
          /\ (task.pc # "none" /\ task'.pc # "none") =>
                /\ task'.rollups = task.rollups
                /\ \A c \in change \ change' :
                       c <= expunge_before_cid(task.rollups)]_vars
    /\ [](LatestNow # None =>
            select_poll(FileAt(rollupDir, LatestNow.path).state, change, log)
                = StateAt(log, Len(log)))

\* Transaction GC removed a transaction on a floor that is the CID of a
\* marked rollup, with a later rollup and later transactions left.
C32_Witness ==
    /\ ChangeGcCalled
    /\ task.events[2].res = "ok"
    /\ task.events[2].floor >= 1
    /\ LatestNow # None
    /\ LatestNow.cid > task.events[2].floor
    /\ LatestNow.cid < Len(log)

\* ------------------------------------------------- concurrent select claims
\* The rollup files whose CID is the greatest in rollup/.
Greatest == {f \in rollupDir : \A g \in rollupDir : g.cid <= f.cid}

\* A background task removes a rollup file in this step.
RollupRemoved == \E f \in rollupDir : ~HasFile(rollupDir', FilePath(f))

\* C33: whatever the interleaving of selects, their background tasks and
\* rollup writers, no step removes the rollup file with the greatest CID in
\* rollup/, so a rollup directory that holds a rollup never becomes empty.
C33_GreatestNeverRemoved ==
    [][/\ \A f \in Greatest : HasFile(rollupDir', FilePath(f))
       /\ rollupDir # {} => rollupDir' # {}]_vars

\* The tasks of both processes have gone through their removals, one rollup
\* was removed, and the directory still holds the rollup of the latest CID.
C33_Witness ==
    /\ \E f \in Greatest : f.cid = Len(log) /\ f.cid > 1
    /\ task.pc = "done" /\ peer.pc = "done"
    /\ \E i \in 1..Len(task.events), j \in 1..Len(peer.events) :
          /\ task.events[i].op = "remove" /\ task.events[i].res = "ok"
          /\ peer.events[j].op = "remove"

\* ----------------------------------------------------- failed select claims
\* C34 as stated: a select that returns an error has not spawned the
\* background task.
C34_Original == sel.status = "err" => ~sel.spawned

\* C34: a select that fails in list_rollups or in its poll() has spawned no
\* background task; one that fails at the uid_validity lookup, which comes
\* after the spawn, has spawned it exactly when the mailbox is not read-only.
\* The failing call itself removes no transaction and no rollup file.
C34_ErrorBeforeSpawn ==
    [][(Idle /\ sel'.status = "err") =>
          /\ change' = change
          /\ rollupDir' = rollupDir
          /\ sel'.error \in {"list_rollups", "poll", "uid_validity"}
          /\ sel'.error \in {"list_rollups", "poll"} =>
                ~sel'.spawned /\ task' = task
          /\ sel'.error = "uid_validity" =>
                /\ sel'.spawned <=> ~sel'.read_only
                /\ sel'.spawned =>
                      /\ task.pc = "none" /\ task'.pc = "message_gc"
                      /\ task'.rollups = pop(list_rollups(rollupDir))[2]]_vars

\* select is returning the error of the uid_validity lookup while the task
\* it spawned holds a rollup marked for deletion together with its
\* transactions.
C34_Witness ==
    /\ sel.status = "err"
    /\ sel.error = "uid_validity"
    /\ sel.spawned
    /\ task.pc = "message_gc"
    /\ expunge_before_cid(task.rollups) >= 1
    /\ \E c \in change : c <= expunge_before_cid(task.rollups)

\* --------------------------------------------------------------- SpecLogin
\* A connection of a server started as root or as an ordinary user, on
\* which the client sends LOGIN commands.
LoginInit ==
    /\ log = <<>>
    /\ change = {}
    /\ rollupDir = {}
    /\ task = NoTask
    /\ sel = NoSelect
    /\ ClassifyIdle
    /\ sessions = [w \in Sessions |-> NewSession]
    /\ view = NoView
    /\ peer = NoTask
    /\ FetchIdle
    /\ conn \in {NewProcessor(uid) : uid \in {ROOT, 1}}
    /\ ClientIdle
    /\ SmtpIdle
    /\ StatIdle

LoginNext ==
    (\E userid \in UserIds, password \in {"hunter2"}, env \in Envs :
        LogIn([userid |-> userid, password |-> password], env))
    /\ UNCHANGED <<cvars, evars, svars, fvars>>

SpecLogin == LoginInit /\ [][LoginNext]_vars

\* A step of a LOGIN that got past the password check: the log prefix grew.
PastPassword == conn'.log_prefix # conn.log_prefix

\* C35: After any sequence of LOGIN commands the account of the command
\* processor is set only while the process is not root. A LOGIN handled as
\* root sets the account only when it ends chrooted into the user directory
\* with a user id other than root, and a LOGIN that got past the password
\* check as root and leaves the process root answers BYE and leaves the
\* account unset.
C35_AccountOnlyWhenNotRoot ==
    /\ [](conn.account # None => conn.uid # ROOT)
    /\ [][/\ (conn.account = None /\ conn'.account # None /\ conn.uid = ROOT)
             => /\ conn'.root = conn'.account
                /\ conn'.cwd = conn'.account
                /\ conn'.uid # ROOT
          /\ (PastPassword /\ conn.uid = ROOT /\ conn'.uid = ROOT)
             => /\ conn'.response = auth_misconfiguration
                /\ conn'.account = None]_vars

\* A login as root succeeded after an earlier LOGIN had passed the password
\* check and failed to drop privileges.
C35_Witness ==
    /\ conn.account # None
    /\ conn.root = conn.account
    /\ conn.response = LoginSuccessful
    /\ Len(conn.log_prefix) >= 3

\* C36: A LOGIN with a safe user id on a processor that is not logged in
\* gives the same outcome whether the user does not exist, the config is
\* unreadable or the password is wrong: NO "Bad user id or password", with
\* the processor otherwise as it was (account unset, log prefix unchanged).
C36_FailuresIndistinguishable ==
    conn.account = None =>
        \A userid \in {u \in UserIds : is_safe_name(u)} :
            \A env \in {e \in Envs : e.lookup \in LookupFailures} :
                cmd_log_in(conn, [userid |-> userid, password |-> "hunter2"],
                           env)
                    = [conn EXCEPT !.response = BadUserIdOrPassword]

\* A LOGIN was refused for the user id or password, after an earlier LOGIN
\* had left its mark on the log prefix.
C36_Witness ==
    /\ conn.response = BadUserIdOrPassword
    /\ conn.account = None
    /\ conn.log_prefix # <<>>

\* -------------------------------------------------------------- SpecAppend
AppendNext ==
    \/ (\E utf8 \in BOOLEAN, n \in 0..MaxData, answer \in ServerAnswers :
           StartAppend(utf8, n, answer))
           /\ UNCHANGED <<cvars, evars, svars, fvars>>
    \/ (\E utf8 \in BOOLEAN, n \in 0..MaxData, answer \in ServerAnswers :
           AppendItem(utf8, n, answer))
           /\ UNCHANGED <<cvars, evars, svars, fvars>>

SpecAppend == Init /\ [][AppendNext]_vars

\* The literal bytes among those written.
Lits(write) ==
    Cardinality({i \in 1..Len(write) : write[i].b = "literal"})

Continued(self) == starts_with(self.response_buffer, <<"+", " ">>)

Produced(self) ==
    {i \in 1..Len(self.results) : self.results[i] # Nil}

\* C38: in every MultiFetcher of the walk `remaining` is the number of slots
\* that still hold a sub-fetcher and is never negative; a slot that gave its
\* result holds no sub-fetcher any more, is not given back one and keeps its
\* result until the results are returned; and a call returns the results
\* exactly when `remaining` is 0 after it: the walk has the results of the
\* outermost MultiFetcher iff its `remaining` is 0 and an event went through
\* it, end() always finds results to return, and a MultiFetcher the walk is
\* still feeding has sub-fetchers left.
C38_RemainingCountsLive ==
    /\ [](\A k \in 1..Len(multi) :
             /\ multi[k].remaining = Cardinality(Live(multi[k]))
             /\ multi[k].remaining >= 0
             /\ Produced(multi[k]) \cap Live(multi[k]) = {})
    /\ [](output # Panic)
    /\ [](Returned => multi[1].remaining = 0)
    /\ []((Walking /\ multi[Len(multi)].remaining = 0)
             => (Len(multi) = 1 /\ added = <<>>))
    /\ [][\A k \in 1..Len(multi) :
             (/\ k <= Len(multi')
              /\ multi'[k].results # <<>>
              /\ Len(multi'[k].fetchers) = Len(multi[k].fetchers)) =>
                 /\ Live(multi'[k]) \subseteq Live(multi[k])
                 /\ \A i \in Produced(multi[k]) :
                        multi'[k].results[i] = multi[k].results[i]]_vars

\* Two of three fetchers went into a part after the third had finished, and
\* one of the two has finished inside the part.
C38_Witness ==
    /\ Len(multi) = 2
    /\ Len(added) = 3
    /\ multi[1].remaining = 2
    /\ Cardinality(Produced(multi[1])) = 1
    /\ multi[2].remaining = 1
    /\ Cardinality(Produced(multi[2])) = 1

\* ---------------------------------------------------------------- SpecSmtp
SmtpInit ==
    /\ log = <<>>
    /\ change = {}
    /\ rollupDir = {}
    /\ task = NoTask
    /\ sel = NoSelect
    /\ ClassifyIdle
    /\ sessions = [w \in Sessions |-> NewSession]
    /\ view = NoView
    /\ peer = NoTask
    /\ FetchIdle
    /\ LoginIdle
    /\ ClientIdle
    /\ smtp \in {Received(s) : s \in SmtpLines}
    /\ StatIdle

SmtpNext == ParseLine /\ UNCHANGED <<cvars, evars, svars, fvars>>

SpecSmtp == SmtpInit /\ [][SmtpNext]_vars

\* C39: every line that Command::from_str accepts is also accepted by
\* looks_like_known_command.
C39_ParsedImpliesKnown ==
    (smtp.parsed # None /\ ~IsErr(smtp.parsed.some)) => smtp.known = Some(TRUE)

\* --------------------------------------------------------------- SpecMtime
\* list_rollups over a directory whose files have the modification times of
\* Mtimes, read at the clock reading ClockNow.
MtimeInit ==
    /\ input = <<>>
    /\ rollups = <<>>
    /\ phase = "build"
    /\ log = <<>>
    /\ change = {}
    /\ rollupDir = {}
    /\ task = NoTask
    /\ sel = NoSelect
    /\ sessions = [w \in Sessions |-> NewSession]
    /\ view = NoView
    /\ peer = NoTask
    /\ FetchIdle
    /\ LoginIdle
    /\ ClientIdle
    /\ SmtpIdle
    /\ stat = [now |-> ClockNow, modified |-> <<>>]

MtimeNext ==
    \/ \E cid \in {1, Len(input) + 1}, modified \in Mtimes :
           StatRollup(Len(input) + 1, cid, modified)
    \/ Classify

SpecMtime == MtimeInit /\ [][MtimeNext]_vars

\* The modification time of the i-th entry is unavailable or in the future.
NoPast(i) ==
    stat.modified[i] = None \/ stat.modified[i].some > stat.now

\* C40: a rollup whose modification time is unavailable or lies in the
\* future is listed with age 0, and classify_rollups marks it neither
\* delete_rollup nor delete_transactions.
C40_UnknownAgeNeverMarked ==
    \A i \in 1..Len(input) :
        NoPast(i) =>
            /\ input[i].age = 0
            /\ phase = "done" =>
                   \A j \in 1..Len(rollups) :
                       rollups[j].path = input[i].path =>
                           /\ rollups[j].age = 0
                           /\ ~rollups[j].delete_rollup
                           /\ ~rollups[j].delete_transactions

\* Of more rollups than the threshold spares, classify_rollups marked one
\* for its age and left alone two that both loops went over: one without a
\* modification time and one modified in the future.
C40_Witness ==
    /\ phase = "done"
    /\ Len(rollups) > EXCESS_ROLLUP_THRESHOLD
    /\ \E j \in 1..Len(rollups) : rollups[j].delete_transactions
    /\ \E i \in 1..Len(input) :
           /\ stat.modified[i] = None
           /\ rollups[1].path = input[i].path
           /\ ~rollups[1].delete_rollup
    /\ \E i \in 1..Len(input) :
           /\ stat.modified[i] # None /\ NoPast(i)
           /\ \E j \in 1..(Len(rollups) - 1) :
                  rollups[j].path = input[i].path /\ ~rollups[j].delete_rollup

====
